---- MODULE Spec2Model ----
(***************************************************************************)
(* gitfourchette: the single-flight RepoTaskRunner (tasks/repotask.py),    *)
(* the RepoWidget that owns it (widgets/repowidget.py) with its separate   *)
(* WorkQueue, the refresh-bit bookkeeping of RepoWidget.refreshRepo        *)
(* (repowidget.py), and the DiffView with its line index and its partial   *)
(* patches (diffview/diffview.py, widgets/diffview.py).                    *)
(*                                                                         *)
(* Threads: the UI thread runs put, the token slots, the finished slot and *)
(* every widget handler, one handler at a time (each is one action).  The  *)
(* runner's QThreadPool and the WorkQueue's pool run execute() and the     *)
(* conflict jobs; a begin and an end action bracket each of them.          *)
(***************************************************************************)
EXTENDS Integers, Sequences, FiniteSets, TLC

\* ---------------------------------------------------------------- bounds
\* RepoTask objects that exist at once (dead ones are forgotten and their
\* identity reused), tokens one flow yields, conflict jobs outstanding at once
MaxTasks == 2
MaxFlowSteps == 1
MaxJobs == 1
\* closed dialogs that can signal once more, at once
MaxStale == 1
\* hunks of a patch, lines of a hunk, lines of a whole patch, and the
\* characters one row of the rendered diff occupies (its newline included)
MaxHunks == 2
MaxHunkLines == 3
MaxPatchLines == 3
RowChars == 2
\* apply handlers run on one document before it is replaced
MaxApplies == 2
\* stashes the repository holds at once
MaxStashes == 2

\* ------------------------------------------------------ program constants
\* a pool that would run two runnables at once
MaxThreadCountTwo == 1 + 1

\* RepoTaskRunner.__init__: self.threadpool.setMaxThreadCount(1)
MaxThreadCount == 1

\* RepoWidget.__init__: WorkQueue(self, maxThreadCount=1)
WorkQueueMaxThreadCount == 1

\* TaskAffectsWhat (enum.IntFlag); a mask is the set of its bits, | is \cup
NOTHING == {}
INDEX == {"INDEX"}
LOCALREFS == {"LOCALREFS"}
REMOTES == {"REMOTES"}

\* the masks the modelled tasks declare in refreshWhat()
Masks == {NOTHING, INDEX \cup LOCALREFS}

TaskIds == 1..MaxTasks
None == 0

TokenKinds == {"AbortIfDialogRejected", "ReenterWhenDialogFinished"}

\* what one call of next(flow) can do
FlowOutcomes == TokenKinds \cup {"StopIteration", "raise", "yieldOther"}

\* TaskEffects bits of the newer RepoWidget.refreshRepo; | is \cup
Nothing == {}
EffectBits == {"Workdir", "Refs", "Remotes"}
Effects == SUBSET EffectBits

VARIABLES
    forceSerial,        \* RepoTaskRunner.forceSerial
    currentTask,        \* RepoTaskRunner.currentTask (None = 0)
    pc,                 \* per task: "new", "rejected", "current" or "cleared"
    token,              \* per task: the yield token its flow is suspended on
    fired,              \* per task: tokens that signalled and are still connected
    aborted,            \* RepoTask.aborted
    what,               \* what RepoTask.refreshWhat() returned to _onTaskFinished
    kind,               \* per task: its class
    trigger,            \* per task: the task whose refresh emission submitted it
    steps,              \* per task: tokens its flow has yielded so far
    gen,                \* per task: state of its preExecuteUiFlow generator
    log,                \* per task: the calls made on it, in order
    emitted,            \* per task: masks emitted through refreshPostTask for it
    poolQueue,          \* runner threadpool: runnables waiting for a thread
    poolActive,         \* runner threadpool: tasks whose execute() is running
    uiQueue,            \* finished(exc) signals queued to the UI thread
    asserts,            \* tasks on which a runner handler failed an assertion
    isStageViewShown,   \* RepoWidget.isStageViewShown
    wqQueue,            \* WorkQueue: jobs waiting for its thread
    wqActive,           \* WorkQueue: jobs whose work() is running
    wqThen,             \* WorkQueue: then() callbacks queued to the UI thread
    isLoaded,           \* RepoWidget.isLoaded (state is not None)
    isVisible,          \* RepoWidget.isVisible()
    busyWith,           \* class of the runner's current task seen by refreshRepo
    pendingRefresh,     \* RepoWidget.pendingRefresh
    call,               \* the last refreshRepo call: its inputs and what it did
    twin,               \* a second runner, with forceSerial set, fed the same events
    script,             \* what execute() and refreshWhat() of the task last run do
    closed,             \* RepoWidget.cleanup was called while execute() was running
    currentPatch,       \* DiffView.currentPatch: the hunks of the patch on display
    lineData,           \* DiffView.lineData: one record per rendered row
    cursor,             \* textCursor(): selectionStart and selectionEnd
    probe,              \* the last lookup in the line index and what it returned
    files,              \* the file in the index and in the working tree, the trash
    done,               \* what the apply and export handlers did since the document came
    stash,              \* the repository's stashes, its trash, and the stash task under way
    conflict            \* the conflicted file: the index entry, the file, and its backup

runnerVars == <<forceSerial, currentTask, pc, token, fired, aborted, what,
                kind, trigger, steps, gen, log, emitted, poolQueue, poolActive, uiQueue,
                asserts, isStageViewShown>>
wqVars == <<wqQueue, wqActive, wqThen>>
refreshVars == <<isLoaded, isVisible, busyWith, pendingRefresh, call>>
twinVars == <<twin, script>>
diffVars == <<currentPatch, lineData, cursor, probe, files, done>>
restVars == <<twinVars, closed, diffVars, stash, conflict>>
vars == <<runnerVars, wqVars, refreshVars, restVars>>

\* ------------------------------------------------------------------------
\* The runner, its tasks and the widget handlers reached from its signals
\* are one record, so that a handler and everything it calls is one step.
\* "full" is set when a handler would construct more task objects than the
\* model holds; such a step is not taken.
\* ------------------------------------------------------------------------
Cur ==
    [forceSerial |-> forceSerial, currentTask |-> currentTask, pc |-> pc, token |-> token,
     fired |-> fired, aborted |-> aborted, what |-> what, kind |-> kind,
     trigger |-> trigger, steps |-> steps, gen |-> gen, log |-> log, emitted |-> emitted,
     poolQueue |-> poolQueue, poolActive |-> poolActive, uiQueue |-> uiQueue,
     asserts |-> asserts, isStageViewShown |-> isStageViewShown, full |-> FALSE]

Set(r) ==
    /\ ~r.full
    /\ currentTask' = r.currentTask
    /\ pc' = r.pc
    /\ token' = r.token
    /\ fired' = r.fired
    /\ aborted' = r.aborted
    /\ what' = r.what
    /\ kind' = r.kind
    /\ trigger' = r.trigger
    /\ steps' = r.steps
    /\ gen' = r.gen
    /\ log' = r.log
    /\ emitted' = r.emitted
    /\ poolQueue' = r.poolQueue
    /\ uiQueue' = r.uiQueue
    /\ asserts' = r.asserts
    /\ isStageViewShown' = r.isStageViewShown

Logged(r, t, e) == [r EXCEPT !.log[t] = Append(@, e)]

\* a failed assert: the exception leaves the handler where it stands
AssertionError(r, t) == [r EXCEPT !.asserts = @ \cup {t}]

Range(q) == {q[i] : i \in 1..Len(q)}

\* a task object nothing refers to any more: the runner has dropped or never
\* took it, no runnable, signal or connected token of it is left
Dead(r, t) ==
    /\ r.pc[t] \in {"rejected", "cleared"}
    /\ t \notin Range(r.poolQueue)
    /\ t \notin r.poolActive
    /\ \A i \in 1..Len(r.uiQueue) : r.uiQueue[i].task # t
    /\ r.token[t] = "none"
    /\ r.fired[t] = {}

\* the record of task objects in D starts afresh
Reset(r, D) ==
    [r EXCEPT !.pc = [t \in TaskIds |-> IF t \in D THEN "new" ELSE @[t]],
              !.aborted = [t \in TaskIds |-> IF t \in D THEN FALSE ELSE @[t]],
              !.what = [t \in TaskIds |-> IF t \in D THEN NOTHING ELSE @[t]],
              !.kind = [t \in TaskIds |-> IF t \in D THEN "RepoTask" ELSE @[t]],
              !.trigger = [t \in TaskIds |-> IF t \in D \/ @[t] \in D THEN None ELSE @[t]],
              !.steps = [t \in TaskIds |-> IF t \in D THEN 0 ELSE @[t]],
              !.gen = [t \in TaskIds |-> IF t \in D THEN "none" ELSE @[t]],
              !.log = [t \in TaskIds |-> IF t \in D THEN <<>> ELSE @[t]],
              !.emitted = [t \in TaskIds |-> IF t \in D THEN <<>> ELSE @[t]],
              !.asserts = @ \ D]

\* dead task objects are forgotten when an event from outside constructs a task
Forget(r) == Reset(r, {t \in TaskIds : Dead(r, t)})

Lowest(S) == CHOOSE x \in S : \A y \in S : x <= y

\* the identity of the next task object: an unused one, else a dead one's
FreeId(r) ==
    LET new == {t \in TaskIds : r.pc[t] = "new"}
        dead == {t \in TaskIds : Dead(r, t)}
    IN  IF new # {} THEN Lowest(new)
        ELSE IF dead # {} THEN Lowest(dead)
        ELSE None

\* ------------------------------------------------------------------------
\* RepoTaskRunner
\* ------------------------------------------------------------------------

\* RepoTaskRunner._clearTask
clearTask(r, t) ==
    IF t # r.currentTask
    THEN AssertionError(r, t)
    ELSE Logged([r EXCEPT !.currentTask = None, !.pc[t] = "cleared"], t, "clear")

\* RepoTaskRunner.put: "if self.currentTask is not None: ... return"
putRejectsNever(r) == FALSE
putRejects(r) == r.currentTask # None

\* the inputs of the RefreshWorkdir task that refreshWorkdirViewAsync builds:
\* no preExecuteUiFlow, refreshWhat() is the base class's NOTHING
RefreshWorkdirInput(inp) ==
    [kind |-> "RefreshWorkdir", what |-> NOTHING, flow |-> "None",
     step |-> "StopIteration", cancels |-> FALSE, ok |-> inp.ok2, ok2 |-> inp.ok2]

RECURSIVE put(_, _, _)
RECURSIVE executeTask(_, _, _)
RECURSIVE onTaskFinished(_, _, _, _)

\* RepoWidget.quickRefresh: "if self.isStageViewShown: self.refreshWorkdirViewAsync()"
\* and RepoWidget.refreshWorkdirViewAsync: runTask(RefreshWorkdir)
quickRefresh(r, inp, trig) ==
    IF r.isStageViewShown
    THEN put(r, RefreshWorkdirInput(inp), trig)
    ELSE r

\* RepoWidget.refreshPostTask (widgets/repowidget.py), slot of refreshPostTask
refreshPostTask(r, mask, inp, trig) ==
    IF mask # NOTHING
    THEN quickRefresh(r, inp, trig)
    ELSE r

\* _onTaskFinished without its "if exc: onError(exc)"
onTaskFinishedSwallowsError(r, t, exc, inp) ==
    IF t # r.currentTask
    THEN AssertionError(r, t)
    ELSE LET r2 == Logged(r, t, IF exc THEN "postExecuteFalse" ELSE "postExecuteTrue")
             r3 == IF r.kind[t] = "RefreshWorkdir" /\ ~exc
                   THEN [r2 EXCEPT !.isStageViewShown = TRUE]
                   ELSE r2
             \* task.refreshWhat(), called here
             mask == inp.what
             r4 == Logged([r3 EXCEPT !.what[t] = inp.what,
                                     !.emitted[t] = Append(@, mask)], t, "refresh")
             r5 == refreshPostTask(r4, mask, inp, t)
         IN  clearTask(r5, t)

\* _onTaskFinished publishing an empty mask when execute() raised
onTaskFinishedEmptyOnFailure(r, t, exc, inp) ==
    IF t # r.currentTask
    THEN AssertionError(r, t)
    ELSE LET r1 == IF exc THEN Logged(r, t, "onError") ELSE r
             r2 == Logged(r1, t, IF exc THEN "postExecuteFalse" ELSE "postExecuteTrue")
             r3 == IF r.kind[t] = "RefreshWorkdir" /\ ~exc
                   THEN [r2 EXCEPT !.isStageViewShown = TRUE]
                   ELSE r2
             mask == IF exc THEN NOTHING ELSE inp.what
             r4 == Logged([r3 EXCEPT !.what[t] = inp.what,
                                     !.emitted[t] = Append(@, mask)], t, "refresh")
             r5 == refreshPostTask(r4, mask, inp, t)
         IN  clearTask(r5, t)

\* _onTaskFinished that drops a task cancelled meanwhile instead of completing it
onTaskFinishedHonoursCancel(r, t, exc, inp) ==
    IF t # r.currentTask
    THEN AssertionError(r, t)
    ELSE IF r.aborted[t]
    THEN clearTask(r, t)
    ELSE LET r1 == IF exc THEN Logged(r, t, "onError") ELSE r
             r2 == Logged(r1, t, IF exc THEN "postExecuteFalse" ELSE "postExecuteTrue")
             r3 == IF r.kind[t] = "RefreshWorkdir" /\ ~exc
                   THEN [r2 EXCEPT !.isStageViewShown = TRUE]
                   ELSE r2
             mask == inp.what
             r4 == Logged([r3 EXCEPT !.what[t] = inp.what,
                                     !.emitted[t] = Append(@, mask)], t, "refresh")
             r5 == refreshPostTask(r4, mask, inp, t)
         IN  clearTask(r5, t)

\* RepoTaskRunner._onTaskFinished, with the slots of the signal it emits
onTaskFinished(r, t, exc, inp) ==
    IF t # r.currentTask
    THEN AssertionError(r, t)
    ELSE LET r1 == IF exc THEN Logged(r, t, "onError") ELSE r
             r2 == Logged(r1, t, IF exc THEN "postExecuteFalse" ELSE "postExecuteTrue")
             \* RefreshWorkdir.postExecute: if success: rw._fillWorkdirView(...)
             r3 == IF r.kind[t] = "RefreshWorkdir" /\ ~exc
                   THEN [r2 EXCEPT !.isStageViewShown = TRUE]
                   ELSE r2
             \* task.refreshWhat(), called here
             mask == inp.what
             r4 == Logged([r3 EXCEPT !.what[t] = inp.what,
                                     !.emitted[t] = Append(@, mask)], t, "refresh")
             r5 == refreshPostTask(r4, mask, inp, t)
         IN  clearTask(r5, t)

\* execute() called in place without the try/except that turns its exception
\* into finished(exc)
executeInlineDirect(r, t, inp) ==
    LET r1 == Logged(Logged(r, t, "execute"), t,
                     IF inp.ok THEN "executeEnd" ELSE "executeRaise")
    IN  IF inp.ok THEN onTaskFinished(r1, t, FALSE, inp) ELSE r1

\* RepoTask.executeAndEmitFinishedSignal run in place (wrapper.run() under
\* forceSerial): execute(), then finished is emitted on the emitting thread
executeInline(r, t, inp) ==
    LET r1 == Logged(Logged(r, t, "execute"), t,
                     IF inp.ok THEN "executeEnd" ELSE "executeRaise")
    IN  onTaskFinished(r1, t, ~inp.ok, inp)

\* RepoTaskRunner._executeTask
executeTask(r, t, inp) ==
    IF t # r.currentTask
    THEN AssertionError(r, t)
    ELSE IF r.forceSerial
         THEN executeInline(r, t, inp)
         ELSE [r EXCEPT !.poolQueue = Append(@, t)]

\* the "except StopIteration" branch of _onContinueFlow
flowExhausted(r, t, inp) ==
    IF r.currentTask # t
    THEN AssertionError(r, t)
    ELSE IF r.aborted[t]
         THEN clearTask(r, t)
         ELSE executeTask(r, t, inp)

\* an "except BaseException" branch that reports the error and keeps the task
flowRaisedKeepsTask(r, t) ==
    IF r.currentTask # t
    THEN AssertionError(r, t)
    ELSE Logged(r, t, "onError")

\* the "except BaseException" branch of _onContinueFlow
flowRaised(r, t) ==
    IF r.currentTask # t
    THEN AssertionError(r, t)
    ELSE clearTask(Logged(r, t, "onError"), t)

\* _onContinueFlow that starts execute() as soon as the flow yields a token
onContinueFlowExecutesAtOnce(r, t, inp) ==
    IF r.aborted[t]
    THEN AssertionError(r, t)
    ELSE IF r.gen[t] = "exhausted"
         THEN flowExhausted(r, t, inp)
         ELSE LET r1 == Logged([r EXCEPT !.aborted[t] = inp.cancels], t, "flow")
              IN  CASE inp.step \in TokenKinds ->
                         executeTask([r1 EXCEPT !.token[t] = inp.step,
                                                !.steps[t] = @ + 1], t, inp)
                    [] inp.step = "StopIteration" ->
                         flowExhausted([r1 EXCEPT !.gen[t] = "exhausted"], t, inp)
                    [] inp.step = "raise" ->
                         flowRaised([r1 EXCEPT !.gen[t] = "exhausted"], t)
                    [] OTHER ->
                         flowRaised(r1, t)

\* RepoTaskRunner._onContinueFlow
onContinueFlow(r, t, inp) ==
    IF r.aborted[t]
    THEN AssertionError(r, t)
    ELSE IF r.gen[t] = "exhausted"
         THEN flowExhausted(r, t, inp)
         ELSE LET \* the flow's code runs up to its next yield, return or raise;
                  \* it may call self.cancel() on the way
                  r1 == Logged([r EXCEPT !.aborted[t] = inp.cancels], t, "flow")
              IN  CASE inp.step \in TokenKinds ->
                         [r1 EXCEPT !.token[t] = inp.step, !.steps[t] = @ + 1]
                    [] inp.step = "StopIteration" ->
                         flowExhausted([r1 EXCEPT !.gen[t] = "exhausted"], t, inp)
                    [] inp.step = "raise" ->
                         flowRaised([r1 EXCEPT !.gen[t] = "exhausted"], t)
                    [] OTHER ->
                         \* yielded something that is no TaskYieldTokenBase
                         flowRaised(r1, t)

\* RepoWidget.runTask and RepoTaskRunner.put
put(r, inp, trig) ==
    LET t == FreeId(r)
    IN  IF t = None
        THEN [r EXCEPT !.full = TRUE]
        ELSE LET r0 == [Reset(r, {t}) EXCEPT !.kind[t] = inp.kind, !.trigger[t] = trig]
             IN  IF putRejects(r)
                 THEN [r0 EXCEPT !.pc[t] = "rejected"]
                 ELSE LET r1 == [r0 EXCEPT !.currentTask = t, !.pc[t] = "current"]
                      IN  IF inp.flow = "None"
                          THEN executeTask(r1, t, inp)
                          ELSE onContinueFlow([r1 EXCEPT !.gen[t] = "suspended"], t, inp)

\* ------------------------------------------------------------------------
\* Initial state: RepoWidget.__init__ and RepoTaskRunner.__init__
\* ------------------------------------------------------------------------
\* execute() returns, refreshWhat() is the base class's NOTHING
Settled == [ok |-> TRUE, ok2 |-> TRUE, what |-> NOTHING]

NoCall ==
    [flags |-> Nothing, loaded |-> FALSE, priming |-> FALSE, visible |-> FALSE,
     busy |-> FALSE, pending |-> Nothing, did |-> "none", passed |-> Nothing]

\* nothing looked up yet; no repository file on display
NoProbe == [op |-> "none", at |-> 0, result |-> 0]
NoFiles == [index |-> <<>>, workdir |-> <<>>, trash |-> 0]

\* a file with a merge conflict, which no job has touched yet; "calls" is
\* what the work() of the last conflict job did
Conflicted ==
    [conflicted |-> TRUE, file |-> "conflicted", backup |-> "none", calls |-> <<>>]

\* no stash task under way
IdleStashTask == [kind |-> "none", oid |-> 0, at |-> "idle", ticked |-> FALSE, step |-> 0]

\* a repository that holds the stashes S, its trash empty; "of" is the task
\* last invoked, "log" what it did, "before" and "trashBefore" what the
\* repository and its trash held when that task began
Repo(S) ==
    [stashes |-> S, trash |-> {}, workdir |-> {}, task |-> IdleStashTask,
     of |-> [kind |-> "none", oid |-> 0], log |-> <<>>, before |-> S, trashBefore |-> {}]

\* DiffView.__init__: nothing on display
NoDocument ==
    /\ currentPatch = <<>>
    /\ lineData = <<>>
    /\ cursor = [selectionStart |-> 0, selectionEnd |-> 0]
    /\ probe = NoProbe
    /\ files = NoFiles
    /\ done = <<>>

\* the runner, the work queue and the widget after construction
InitRunner ==
    /\ forceSerial \in BOOLEAN
    /\ currentTask = None
    /\ pc = [t \in TaskIds |-> "new"]
    /\ token = [t \in TaskIds |-> "none"]
    /\ fired = [t \in TaskIds |-> {}]
    /\ aborted = [t \in TaskIds |-> FALSE]
    /\ what = [t \in TaskIds |-> NOTHING]
    /\ kind = [t \in TaskIds |-> "RepoTask"]
    /\ trigger = [t \in TaskIds |-> None]
    /\ steps = [t \in TaskIds |-> 0]
    /\ gen = [t \in TaskIds |-> "none"]
    /\ log = [t \in TaskIds |-> <<>>]
    /\ emitted = [t \in TaskIds |-> <<>>]
    /\ poolQueue = <<>>
    /\ poolActive = {}
    /\ uiQueue = <<>>
    /\ asserts = {}
    /\ isStageViewShown \in BOOLEAN
    /\ wqQueue = <<>>
    /\ wqActive = {}
    /\ wqThen = <<>>
    /\ isLoaded = FALSE
    /\ isVisible = FALSE
    /\ busyWith = "None"
    /\ pendingRefresh = Nothing
    /\ call = NoCall
    /\ twin = [Cur EXCEPT !.forceSerial = TRUE]
    /\ script = Settled
    /\ closed = FALSE
    /\ conflict = Conflicted

Init ==
    /\ InitRunner
    /\ NoDocument
    /\ stash = Repo({})

\* ------------------------------------------------------------------------
\* UI-thread events of the runner
\* ------------------------------------------------------------------------

\* what is read of a task when the end of its execute() is handled in the
\* call that submitted or continued it (forceSerial): the outcome of execute(),
\* that of a RefreshWorkdir task started from its completion, and refreshWhat()
Outcomes ==
    IF forceSerial THEN [ok : BOOLEAN, ok2 : BOOLEAN, what : Masks] ELSE {Settled}

\* what the next step of a flow that has yielded n tokens can do
StepsAfter(n) ==
    IF n < MaxFlowSteps THEN FlowOutcomes ELSE FlowOutcomes \ TokenKinds

\* whether the flow's code calls self.cancel() in a step: told apart from
\* Cancel only in the step that returns
Cancels(s) == IF s = "StopIteration" THEN BOOLEAN ELSE {FALSE}

TaskInput(f, s, c, o) ==
    [kind |-> "RepoTask", what |-> o.what, flow |-> f, step |-> s, cancels |-> c,
     ok |-> o.ok, ok2 |-> o.ok2]

\* the inputs that tell one submitted task from another: when put rejects,
\* nothing of the task is ever run
PutInputs(r) ==
    IF putRejects(r)
    THEN {TaskInput("None", "StopIteration", FALSE, Settled)}
    ELSE {TaskInput("None", "StopIteration", FALSE, o) : o \in Outcomes}
         \cup UNION {{TaskInput("generator", s, c, o) : o \in Outcomes, c \in Cancels(s)} :
                        s \in StepsAfter(0)}

\* a signal connected through RepoWidget.connectTask fires: runTask(taskClass)
Put ==
    /\ \E inp \in PutInputs(Forget(Cur)) : Set(put(Forget(Cur), inp, None))
    /\ UNCHANGED <<forceSerial, poolActive, wqVars, refreshVars, restVars>>

\* the token's connections after it has signalled: gone with its dialog
\* (keep = FALSE), or still there for a dialog that signals again
Fired(r, t, keep) ==
    [r EXCEPT !.token[t] = "none",
              !.fired[t] = IF keep THEN @ \cup {<<r.steps[t], r.token[t]>>} ELSE @]

\* the token a flow is suspended on emits continueTask (dialog accepted, or
\* finished for ReenterWhenDialogFinished): lambda: self._onContinueFlow(task, flow)
ContinueTask(t, keep) ==
    /\ token[t] # "none"
    /\ \E s \in StepsAfter(steps[t]), o \in Outcomes : \E c \in Cancels(s) :
          Set(onContinueFlow(Fired(Cur, t, keep), t,
                TaskInput("generator", s, c \/ aborted[t], o)))
    /\ UNCHANGED <<forceSerial, poolActive, wqVars, refreshVars, restVars>>

\* a slot of abortTask that lets the flow go on to execute()
onAbortTaskContinues(r, t) ==
    flowExhausted(Logged([r EXCEPT !.gen[t] = "exhausted"], t, "abortTask"), t,
                  [kind |-> "RepoTask", what |-> NOTHING, flow |-> "generator",
                   step |-> "StopIteration", cancels |-> FALSE, ok |-> TRUE, ok2 |-> TRUE])

\* the slot of abortTask: lambda: self._clearTask(task)
onAbortTask(r, t) == clearTask(Logged(r, t, "abortTask"), t)

\* the dialog behind an AbortIfDialogRejected token is rejected
AbortTask(t, keep) ==
    /\ token[t] = "AbortIfDialogRejected"
    /\ Set(onAbortTask(Fired(Cur, t, keep), t))
    /\ UNCHANGED <<forceSerial, poolActive, wqVars, refreshVars, restVars>>

\* RepoTask.cancel, called by a holder of the current task
Cancel(t) ==
    /\ t = currentTask
    /\ ~aborted[t]
    /\ aborted' = [aborted EXCEPT ![t] = TRUE]
    /\ UNCHANGED <<forceSerial, currentTask, pc, token, fired, what, kind,
                   trigger, steps, gen, log, emitted, poolQueue, poolActive, uiQueue,
                   asserts, isStageViewShown, wqVars, refreshVars, restVars>>

\* the file watcher or the refresh timer fires: RepoWidget.onIndexChange,
\* scheduledRefresh.timeout -> quickRefresh
QuickRefresh ==
    /\ \E o \in IF putRejects(Cur) THEN {Settled} ELSE Outcomes :
          Set(quickRefresh(Forget(Cur),
                TaskInput("None", "StopIteration", FALSE, o), None))
    /\ UNCHANGED <<forceSerial, poolActive, wqVars, refreshVars, restVars>>

\* the finished(exc) signal of a task whose execute() ran on the pool reaches
\* the UI thread: lambda exc: self._onTaskFinished(task, exc)
OnFinished ==
    /\ uiQueue # <<>>
    /\ \E m \in IF kind[Head(uiQueue).task] = "RefreshWorkdir" THEN {NOTHING} ELSE Masks :
          LET e == Head(uiQueue)
              r0 == [Cur EXCEPT !.uiQueue = Tail(@)]
          IN  Set(onTaskFinished(r0, e.task, e.exc,
                    TaskInput("None", "StopIteration", FALSE, [Settled EXCEPT !.what = m])))
    /\ UNCHANGED <<forceSerial, poolActive, wqVars, refreshVars, restVars>>

\* ------------------------------------------------------------------------
\* The runner's thread pool (QThreadPool, maxThreadCount 1)
\* ------------------------------------------------------------------------

\* a pool thread takes the next runnable: executeAndEmitFinishedSignal begins
PoolStart ==
    /\ poolQueue # <<>>
    /\ Cardinality(poolActive) < MaxThreadCount
    /\ LET t == Head(poolQueue)
       IN  /\ poolActive' = poolActive \cup {t}
           /\ poolQueue' = Tail(poolQueue)
           /\ log' = [log EXCEPT ![t] = Append(@, "execute")]
    /\ UNCHANGED <<forceSerial, currentTask, pc, token, fired, aborted, what,
                   kind, trigger, steps, gen, emitted, uiQueue, asserts,
                   isStageViewShown, wqVars, refreshVars, restVars>>

\* execute() returns or raises on the pool thread; finished(exc) is emitted
\* from that thread and queued to the UI thread.  A task object that was
\* cleared (deleteLater) meanwhile may be gone, and its signal with it.
ExecuteEnd(t) ==
    /\ t \in poolActive
    /\ poolActive' = poolActive \ {t}
    /\ \E exc \in BOOLEAN, lost \in {FALSE, pc[t] = "cleared"} :
          /\ log' = [log EXCEPT ![t] = Append(@, IF exc THEN "executeRaise" ELSE "executeEnd")]
          /\ uiQueue' = IF lost THEN uiQueue
                        ELSE Append(uiQueue, [task |-> t, exc |-> exc])
    /\ UNCHANGED <<forceSerial, currentTask, pc, token, fired, aborted, what,
                   kind, trigger, steps, gen, emitted, poolQueue, asserts,
                   isStageViewShown, wqVars, refreshVars, restVars>>

Next ==
    \/ Put
    \/ \E t \in TaskIds : ContinueTask(t, FALSE)
    \/ \E t \in TaskIds : AbortTask(t, FALSE)
    \/ \E t \in TaskIds : Cancel(t)
    \/ QuickRefresh
    \/ OnFinished
    \/ PoolStart
    \/ \E t \in TaskIds : ExecuteEnd(t)

Spec == Init /\ [][Next]_vars

\* ------------------------------------------------------------------------
\* Tokens whose dialog signals again.  The runner never disconnects the
\* lambdas it connected to a token (_onContinueFlow), so a dialog that is
\* shown and closed a second time runs them a second time.
\* ------------------------------------------------------------------------

StaleCount == Cardinality(UNION {{<<t, f>> : f \in fired[t]} : t \in TaskIds})

\* the token the flow was suspended on when a stale signal moved it on: it
\* stays connected, or its dialog is gone
Superseded(r, t) ==
    IF r.token[t] = "none" THEN r ELSE Fired(r, t, StaleCount <= MaxStale)

StaleContinueTask(t) ==
    /\ \E f \in fired[t], s \in StepsAfter(steps[t]), o \in Outcomes : \E c \in Cancels(s) :
          LET r0 == [Cur EXCEPT !.fired[t] = @ \ {f}]
              r1 == IF gen[t] = "suspended" /\ ~aborted[t] /\ s \in TokenKinds
                    THEN Superseded(r0, t) ELSE r0
          IN  Set(onContinueFlow(r1, t,
                    TaskInput("generator", s, c \/ aborted[t], o)))
    /\ UNCHANGED <<forceSerial, poolActive, wqVars, refreshVars, restVars>>

StaleAbortTask(t) ==
    /\ \E f \in fired[t] :
          /\ f[2] = "AbortIfDialogRejected"
          /\ Set(onAbortTask([Cur EXCEPT !.fired[t] = @ \ {f}], t))
    /\ UNCHANGED <<forceSerial, poolActive, wqVars, refreshVars, restVars>>

\* whether the dialog of the token that signals now can signal once more
Keeps == {FALSE, StaleCount < MaxStale}

NextStale ==
    \/ Put
    \/ \E t \in TaskIds, keep \in Keeps : ContinueTask(t, keep)
    \/ \E t \in TaskIds, keep \in Keeps : AbortTask(t, keep)
    \/ \E t \in TaskIds : StaleContinueTask(t)
    \/ \E t \in TaskIds : StaleAbortTask(t)
    \/ \E t \in TaskIds : Cancel(t)
    \/ QuickRefresh
    \/ OnFinished
    \/ PoolStart
    \/ \E t \in TaskIds : ExecuteEnd(t)

SpecStale == Init /\ [][NextStale]_vars

\* ------------------------------------------------------------------------
\* Callbacks that raise.  _onTaskFinished calls onError and postExecute in
\* place, with no try around them: what they raise leaves the slot at once.
\* What a slot of refreshPostTask raises is reported by the Qt binding and
\* does not come back through emit.
\* ------------------------------------------------------------------------
Raisers == {"onError", "postExecute", "refreshPostTask"}

\* RepoTaskRunner._onTaskFinished when the callback named raises
onTaskFinishedRaising(r, t, exc, inp, raiser) ==
    IF t # r.currentTask
    THEN AssertionError(r, t)
    ELSE LET r1 == IF exc THEN Logged(r, t, "onError") ELSE r
             r2 == Logged(r1, t, IF exc THEN "postExecuteFalse" ELSE "postExecuteTrue")
             r4 == Logged([r2 EXCEPT !.what[t] = inp.what,
                                     !.emitted[t] = Append(@, inp.what)], t, "refresh")
         IN  CASE raiser = "onError" -> Logged(r1, t, "raised")
               [] raiser = "postExecute" -> Logged(r2, t, "raised")
               [] OTHER -> clearTask(Logged(r4, t, "raised"), t)

\* the finished(exc) signal reaches the UI thread and a callback raises
OnFinishedRaising ==
    /\ uiQueue # <<>>
    /\ \E m \in Masks, raiser \in Raisers :
          LET e == Head(uiQueue)
              r0 == [Cur EXCEPT !.uiQueue = Tail(@)]
          IN  /\ raiser = "onError" => e.exc
              /\ Set(onTaskFinishedRaising(r0, e.task, e.exc,
                    TaskInput("None", "StopIteration", FALSE, [Settled EXCEPT !.what = m]),
                    raiser))
    /\ UNCHANGED <<forceSerial, poolActive, wqVars, refreshVars, restVars>>

NextRaising ==
    \/ Next
    \/ OnFinishedRaising

SpecRaising == Init /\ [][NextRaising]_vars

\* ------------------------------------------------------------------------
\* RepoWidget.workQueue: the conflict jobs (widgets/repowidget.py)
\* ------------------------------------------------------------------------
Jobs == {"hardSolveConflict", "markConflictSolved"}

Outstanding == Len(wqQueue) + Cardinality(wqActive) + Len(wqThen)

\* RepoWidget.hardSolveConflictAsync: self.workQueue.put(work, then, opName)
HardSolveConflictAsync ==
    /\ Outstanding < MaxJobs
    /\ wqQueue' = Append(wqQueue, "hardSolveConflict")
    /\ UNCHANGED <<runnerVars, wqActive, wqThen, refreshVars, restVars>>

\* RepoWidget.markConflictSolvedAsync: self.workQueue.put(work, then, opName)
MarkConflictSolvedAsync ==
    /\ Outstanding < MaxJobs
    /\ wqQueue' = Append(wqQueue, "markConflictSolved")
    /\ UNCHANGED <<runnerVars, wqActive, wqThen, refreshVars, restVars>>

\* the WorkQueue's thread takes a job: work() begins (refreshIndex, ...,
\* repo.index.write())
WorkQueueStart ==
    /\ wqQueue # <<>>
    /\ Cardinality(wqActive) < WorkQueueMaxThreadCount
    /\ wqActive' = wqActive \cup {Head(wqQueue)}
    /\ wqQueue' = Tail(wqQueue)
    /\ UNCHANGED <<runnerVars, wqThen, refreshVars, restVars>>

\* work() of hardSolveConflictAsync
HardSolveCalls ==
    <<"refreshIndex", "backupFile", "write", "delConflict", "indexWrite">>

\* work() of markConflictSolvedAsync
MarkSolvedCalls == <<"refreshIndex", "delConflict", "indexWrite">>

\* what one call of work() does to the conflicted file when it returns:
\* trash.backupFile(path), open(path, "wb").write(blob.data),
\* del repo.index.conflicts[path]
WorkCall(c, name) ==
    CASE name = "backupFile" -> [c EXCEPT !.backup = c.file]
      [] name = "write" -> [c EXCEPT !.file = "kept"]
      [] name = "delConflict" -> [c EXCEPT !.conflicted = FALSE]
      [] OTHER -> c

RECURSIVE WorkCalls(_, _, _)
WorkCalls(c, names, n) ==
    IF n = 0 \/ names = <<>>
    THEN c
    ELSE WorkCalls([WorkCall(c, Head(names)) EXCEPT !.calls = Append(@, Head(names))],
                   Tail(names), n - 1)

\* work() of job j of which n calls return: all of them, or the next one
\* raises; "assert path in repo.index.conflicts" fails after refreshIndex
\* when the conflict is gone
work(c, j, n) ==
    LET names == IF j = "hardSolveConflict" THEN HardSolveCalls ELSE MarkSolvedCalls
    IN  WorkCalls([c EXCEPT !.calls = <<>>], names, IF c.conflicted THEN n ELSE 1)

\* work() returns or raises; then() is handed to the UI thread
WorkQueueEnd(j) ==
    /\ j \in wqActive
    /\ wqActive' = wqActive \ {j}
    /\ wqThen' = Append(wqThen, j)
    /\ \E n \in {1, 2, Len(HardSolveCalls)} : conflict' = work(conflict, j, n)
    /\ UNCHANGED <<runnerVars, wqQueue, refreshVars, twinVars, closed, diffVars, stash>>

\* then(_): self.quickRefreshWithSidebar()
WorkQueueThen ==
    /\ wqThen # <<>>
    /\ wqThen' = Tail(wqThen)
    /\ \E o \in IF putRejects(Cur) THEN {Settled} ELSE Outcomes :
          Set(quickRefresh(Forget(Cur),
                TaskInput("None", "StopIteration", FALSE, o), None))
    /\ UNCHANGED <<forceSerial, poolActive, wqQueue, wqActive, refreshVars, restVars>>

NextWorkQueue ==
    \/ Next
    \/ HardSolveConflictAsync
    \/ MarkConflictSolvedAsync
    \/ WorkQueueStart
    \/ \E j \in Jobs : WorkQueueEnd(j)
    \/ WorkQueueThen

SpecWorkQueue == Init /\ [][NextWorkQueue]_vars

\* ------------------------------------------------------------------------
\* RepoWidget.refreshRepo and pendingRefresh (repowidget.py)
\* ------------------------------------------------------------------------
Widget ==
    [isLoaded |-> isLoaded, isVisible |-> isVisible, busyWith |-> busyWith,
     pendingRefresh |-> pendingRefresh, call |-> call]

SetWidget(w) ==
    /\ isLoaded' = w.isLoaded
    /\ isVisible' = w.isVisible
    /\ busyWith' = w.busyWith
    /\ pendingRefresh' = w.pendingRefresh
    /\ call' = w.call

\* RepoWidget.isPriming: isinstance(self.repoTaskRunner.currentTask, tasks.PrimeRepo)
isPriming(w) == w.busyWith = "PrimeRepo"

\* RepoTaskRunner.isBusy() of the runner this RepoWidget uses
isBusy(w) == w.busyWith # "None"

\* TaskEffects.DefaultRefresh, the default of refreshRepo's flags
DefaultRefresh == EffectBits

\* tasks.RefreshRepo.invoke(self, flags, jumpTo): the refresh task is started
invoke(w, flags) == [w EXCEPT !.busyWith = "RefreshRepo"]

Called(w, flags, did, passed) ==
    [flags |-> flags, loaded |-> w.isLoaded, priming |-> isPriming(w),
     visible |-> w.isVisible, busy |-> isBusy(w), pending |-> w.pendingRefresh,
     did |-> did, passed |-> passed]

\* refreshRepo assigning the stashed bits instead of OR-ing them in
refreshRepoOverwritesPending(w, flags) ==
    IF (~w.isLoaded) \/ isPriming(w)
    THEN [w EXCEPT !.call = Called(w, flags, "return", Nothing)]
    ELSE IF flags = Nothing
    THEN [w EXCEPT !.call = Called(w, flags, "break", Nothing)]
    ELSE IF (~w.isVisible) \/ isBusy(w)
    THEN [w EXCEPT !.pendingRefresh = flags,
                   !.call = Called(w, flags, "stash", Nothing)]
    ELSE LET all == IF w.pendingRefresh # Nothing THEN flags \cup w.pendingRefresh
                    ELSE flags
             w1 == [w EXCEPT !.pendingRefresh = Nothing,
                             !.call = Called(w, flags, "invoke", all)]
         IN  invoke(w1, all)

\* refreshRepo that reads the pending bits without consuming them
refreshRepoKeepsPending(w, flags) ==
    IF (~w.isLoaded) \/ isPriming(w)
    THEN [w EXCEPT !.call = Called(w, flags, "return", Nothing)]
    ELSE IF flags = Nothing
    THEN [w EXCEPT !.call = Called(w, flags, "break", Nothing)]
    ELSE IF (~w.isVisible) \/ isBusy(w)
    THEN [w EXCEPT !.pendingRefresh = @ \cup flags,
                   !.call = Called(w, flags, "stash", Nothing)]
    ELSE LET all == IF w.pendingRefresh # Nothing THEN flags \cup w.pendingRefresh
                    ELSE flags
             w1 == [w EXCEPT !.call = Called(w, flags, "invoke", all)]
         IN  invoke(w1, all)

\* RepoWidget.refreshRepo
refreshRepo(w, flags) ==
    IF (~w.isLoaded) \/ isPriming(w)
    THEN [w EXCEPT !.call = Called(w, flags, "return", Nothing)]
    ELSE IF flags = Nothing
    THEN [w EXCEPT !.call = Called(w, flags, "break", Nothing)]
    ELSE IF (~w.isVisible) \/ isBusy(w)
    THEN [w EXCEPT !.pendingRefresh = @ \cup flags,
                   !.call = Called(w, flags, "stash", Nothing)]
    ELSE LET all == IF w.pendingRefresh # Nothing THEN flags \cup w.pendingRefresh
                    ELSE flags
             w1 == [w EXCEPT !.pendingRefresh = Nothing,
                             !.call = Called(w, flags, "invoke", all)]
         IN  invoke(w1, all)

\* RepoWidget.refreshPostTask (repowidget.py), slot of the runner's postTask
refreshPostTaskNew(w, didSucceed, effects) ==
    IF didSucceed
    THEN refreshRepo(w, effects)
    ELSE refreshRepo(w, DefaultRefresh)

\* any caller of refreshRepo other than refreshPostTask
RefreshRepo ==
    /\ \E flags \in Effects : SetWidget(refreshRepo(Widget, flags))
    /\ UNCHANGED <<runnerVars, wqVars, restVars>>

\* the widget is shown or hidden (tab switch, window minimised)
SetVisible ==
    /\ isVisible' = ~isVisible
    /\ UNCHANGED <<runnerVars, wqVars, restVars, isLoaded, busyWith, pendingRefresh, call>>

\* RepoWidget.primeRepo: runTask(tasks.PrimeRepo, path)
PrimeRepo ==
    /\ \E force \in BOOLEAN : ~(~force /\ isLoaded)
    /\ busyWith = "None"
    /\ busyWith' = "PrimeRepo"
    /\ UNCHANGED <<runnerVars, wqVars, restVars, isLoaded, isVisible, pendingRefresh, call>>

\* RepoWidget.runTask on a loaded repository
RunTask ==
    /\ isLoaded
    /\ busyWith = "None"
    /\ busyWith' = "RepoTask"
    /\ UNCHANGED <<runnerVars, wqVars, restVars, isLoaded, isVisible, pendingRefresh, call>>

\* the runner's current task ends: postTask is emitted, with the task still
\* current or not, and the slot is cleared; PrimeRepo has set the state
TaskEnds ==
    /\ busyWith # "None"
    /\ \E didSucceed \in BOOLEAN, effects \in Effects, current \in BOOLEAN :
          LET w0 == [Widget EXCEPT !.isLoaded = @ \/ (busyWith = "PrimeRepo" /\ didSucceed)]
              w1 == IF current THEN w0 ELSE [w0 EXCEPT !.busyWith = "None"]
              w2 == refreshPostTaskNew(w1, didSucceed, effects)
          IN  SetWidget(IF w2.call.did = "invoke" THEN w2
                        ELSE [w2 EXCEPT !.busyWith = "None"])
    /\ UNCHANGED <<runnerVars, wqVars, restVars>>

\* RepoWidget.cleanup: the current task is killed and joined, the state dropped
Cleanup ==
    /\ isLoaded' = FALSE
    /\ busyWith' = "None"
    /\ UNCHANGED <<runnerVars, wqVars, restVars, isVisible, pendingRefresh, call>>

NextRefresh ==
    \/ RefreshRepo
    \/ SetVisible
    \/ PrimeRepo
    \/ RunTask
    \/ TaskEnds
    \/ Cleanup

SpecRefresh == Init /\ [][NextRefresh]_vars

\* ------------------------------------------------------------------------
\* The diff on display: a patch, its rendered rows and the line index
\* (diffview/diffview.py).  Python lists are sequences read through At, with
\* Python's indices: the first element has index 0, index -1 is the last.
\* ------------------------------------------------------------------------

\* pygit2.DiffLine.origin of the lines of a hunk
Origins == {" ", "+", "-"}

\* the lines of one hunk, by origin: at least one of them is a change
HunkShapes ==
    {sh \in UNION {[1..n -> Origins] : n \in 1..MaxHunkLines} :
        \E i \in DOMAIN sh : sh[i] # " "}

\* the hunks of one patch of a single file
PatchShapes ==
    {<<a>> : a \in HunkShapes}
      \cup UNION {{<<a, b>> : b \in {c \in HunkShapes : Len(a) + Len(c) <= MaxPatchLines}} :
                    a \in HunkShapes}

\* how many of the lines have one of the origins
CountOf(lines, origins) == Cardinality({i \in DOMAIN lines : lines[i].origin \in origins})

\* the content of line k of hunk h; the untouched line before hunk h
Text(h, k) == 10 * h + k

\* the lines of hunk h of a patch shape
HunkLines(sh, h) == [k \in DOMAIN sh[h] |-> [origin |-> sh[h][k], content |-> Text(h, k)]]

\* first line of hunk h in the old (new) file: an untouched line separates
\* the hunks
RECURSIVE StartOf(_, _, _)
StartOf(sh, h, side) ==
    IF h = 1 THEN 1
    ELSE StartOf(sh, h - 1, side) + CountOf(HunkLines(sh, h - 1), {" ", side}) + 1

\* pygit2.Patch.hunks of a diff of that shape
PatchOf(sh) ==
    [h \in DOMAIN sh |->
        [old_start |-> StartOf(sh, h, "-"),
         old_lines |-> CountOf(HunkLines(sh, h), {" ", "-"}),
         new_start |-> StartOf(sh, h, "+"),
         new_lines |-> CountOf(HunkLines(sh, h), {" ", "+"}),
         lines |-> HunkLines(sh, h)]]

Patches == {PatchOf(sh) : sh \in PatchShapes}

\* the content of the lines that have one of the origins, in order
RECURSIVE Side(_, _)
Side(lines, origins) ==
    IF lines = <<>> THEN <<>>
    ELSE (IF Head(lines).origin \in origins THEN <<Head(lines).content>> ELSE <<>>)
            \o Side(Tail(lines), origins)

\* the file a patch was computed from (side "-") or leads to (side "+")
RECURSIVE FileOf(_, _, _)
FileOf(patch, h, side) ==
    IF h > Len(patch) THEN <<>>
    ELSE (IF h > 1 THEN <<Text(h, 0)>> ELSE <<>>)
            \o Side(patch[h].lines, {" ", side})
            \o FileOf(patch, h + 1, side)

\* seq[i] of Python: IndexError is reported as the value given for it
At(seq, i, indexError) ==
    IF i >= 0 /\ i < Len(seq) THEN seq[i + 1]
    ELSE IF i < 0 /\ -i <= Len(seq) THEN seq[Len(seq) + i + 1]
    ELSE indexError

\* bisect.bisect_right(a, x, lo) and bisect.bisect_left(a, x, lo) on a sorted list
bisect_right(a, x, lo) == lo + Cardinality({j \in lo..(Len(a) - 1) : a[j + 1] <= x})
bisect_left(a, x, lo) == lo + Cardinality({j \in lo..(Len(a) - 1) : a[j + 1] < x})

\* the rows of hunk h: its header row (hunkLineNum -1), then its lines; a
\* clump is a maximal run of added and removed lines, context has clump -1
RowsOfHunk(patch, h) ==
    LET lines == patch[h].lines
        clump(k) == IF lines[k].origin = " " THEN -1
                    ELSE Cardinality({j \in 1..k : lines[j].origin # " " /\
                                        (j = 1 \/ lines[j - 1].origin = " ")})
                         + 10 * h
    IN  <<[hunkID |-> h - 1, hunkLineNum |-> -1, origin |-> "@", clumpID |-> -1]>>
          \o [k \in DOMAIN lines |->
                [hunkID |-> h - 1, hunkLineNum |-> k - 1,
                 origin |-> lines[k].origin, clumpID |-> clump(k)]]

RECURSIVE RowsFrom(_, _)
RowsFrom(patch, h) ==
    IF h > Len(patch) THEN <<>> ELSE RowsOfHunk(patch, h) \o RowsFrom(patch, h + 1)

\* DiffDocument.lineData of a patch: every row with the place of its first
\* character in the rendered text, which starts with the first row
LineDataOf(patch) ==
    LET rows == RowsFrom(patch, 1)
    IN  [i \in DOMAIN rows |->
            [hunkPos |-> [hunkID |-> rows[i].hunkID, hunkLineNum |-> rows[i].hunkLineNum],
             origin |-> rows[i].origin,
             clumpID |-> rows[i].clumpID,
             cursorStart |-> RowChars * (i - 1)]]

\* DiffView.lineCursorStartCache and DiffView.lineHunkIDCache
lineCursorStartCache(ld) == [i \in DOMAIN ld |-> ld[i].cursorStart]
lineHunkIDCache(ld) == [i \in DOMAIN ld |-> ld[i].hunkPos.hunkID]

\* cursor positions: those of the longest document and a few beyond its end
Positions == 0..(RowChars * (MaxPatchLines + MaxHunks) + 1)

\* findLineDataIndexAt with bisect_left in the place of bisect_right
findLineDataIndexAtLeft(ld, cursorPosition, firstLineDataIndex) ==
    IF ld = <<>> THEN -1
    ELSE bisect_left(lineCursorStartCache(ld), cursorPosition, firstLineDataIndex) - 1

\* DiffView.findLineDataIndexAt
findLineDataIndexAt(ld, cursorPosition, firstLineDataIndex) ==
    IF ld = <<>> THEN -1
    ELSE bisect_right(lineCursorStartCache(ld), cursorPosition, firstLineDataIndex) - 1

\* findHunkIDAt that answers with the last hunk when the list has no such row
findHunkIDAtLast(ld, cursorPosition) ==
    LET clickLineDataIndex == findLineDataIndexAt(ld, cursorPosition, 0)
    IN  IF ld = <<>> THEN 0
        ELSE At(ld, clickLineDataIndex, ld[Len(ld)]).hunkPos.hunkID

\* DiffView.findHunkIDAt: the hunk of the row, -1 on IndexError
findHunkIDAt(ld, cursorPosition) ==
    LET clickLineDataIndex == findLineDataIndexAt(ld, cursorPosition, 0)
        IndexError == [hunkPos |-> [hunkID |-> -1, hunkLineNum |-> -1]]
    IN  At(ld, clickLineDataIndex, IndexError).hunkPos.hunkID

\* DiffView.replaceDocument: a patch is on display, with the file it was
\* computed from in the index and the file it leads to in the working tree
Shown(patch, selectionStart, selectionEnd) ==
    /\ currentPatch = patch
    /\ lineData = LineDataOf(patch)
    /\ cursor = [selectionStart |-> selectionStart, selectionEnd |-> selectionEnd]
    /\ files = [index |-> FileOf(patch, 1, "-"),
                workdir |-> FileOf(patch, 1, "+"),
                trash |-> 0]
    /\ probe = NoProbe
    /\ done = <<>>

\* the runner idle and some patch on display
InitDocument ==
    /\ InitRunner
    /\ ~forceSerial
    /\ ~isStageViewShown
    /\ \E patch \in Patches : Shown(patch, 0, 0)
    /\ stash = Repo({})

\* DiffView.clear: nothing on display
ClearDocument ==
    /\ lineData # <<>>
    /\ currentPatch' = <<>>
    /\ lineData' = <<>>
    /\ cursor' = [selectionStart |-> 0, selectionEnd |-> 0]
    /\ files' = NoFiles
    /\ probe' = NoProbe
    /\ done' = <<>>
    /\ UNCHANGED <<runnerVars, wqVars, refreshVars, twinVars, stash, conflict, closed>>

\* a caller looks a cursor position up in the line index
FindLineDataIndexAt ==
    /\ \E pos \in Positions :
        probe' = [op |-> "findLineDataIndexAt", at |-> pos,
                  result |-> findLineDataIndexAt(lineData, pos, 0)]
    /\ UNCHANGED <<runnerVars, wqVars, refreshVars, twinVars, stash, conflict, closed,
                   currentPatch, lineData, cursor, files, done>>

\* doContextMenu asks for the hunk at the position of the click
FindHunkIDAt ==
    /\ \E pos \in Positions :
        probe' = [op |-> "findHunkIDAt", at |-> pos,
                  result |-> findHunkIDAt(lineData, pos)]
    /\ UNCHANGED <<runnerVars, wqVars, refreshVars, twinVars, stash, conflict, closed,
                   currentPatch, lineData, cursor, files, done>>

\* LineData.cursorEnd: the place after the last character of the row's text,
\* where its newline stands
cursorEnd(ld, i) == ld[i].cursorStart + RowChars - 1

\* DiffView.getMaxPosition: the end of the last block
getMaxPosition(ld) == RowChars * Len(ld) - 1

\* "while end < len(ldList)-1 and ldList[end+1].X == ld.X: end += 1", X being
\* hunkPos.hunkID for a header row and clumpID for a changed line
RECURSIVE extendEnd(_, _, _, _)
extendEnd(ld, end, key, byHunk) ==
    IF /\ end < Len(ld) - 1
       /\ (IF byHunk THEN ld[end + 2].hunkPos.hunkID ELSE ld[end + 2].clumpID) = key
    THEN extendEnd(ld, end + 1, key, byHunk)
    ELSE end

\* "while start > 0 and ldList[start-1].clumpID == ld.clumpID: start -= 1"
RECURSIVE extendStart(_, _, _)
extendStart(ld, start, clumpID) ==
    IF start > 0 /\ ld[start].clumpID = clumpID
    THEN extendStart(ld, start - 1, clumpID)
    ELSE start

\* what selectClumpOfLinesAt does with rows start..end: the cursor it installs
SelectRows(ld, start, end) ==
    [did |-> "select", start |-> start, end |-> end,
     startPosition |-> ld[start + 1].cursorStart,
     endPosition |-> IF getMaxPosition(ld) < cursorEnd(ld, end + 1) + 1
                     THEN getMaxPosition(ld) ELSE cursorEnd(ld, end + 1) + 1]

NoRows(did) ==
    [did |-> did, start |-> -1, end |-> -1, startPosition |-> -1, endPosition |-> -1]

\* selectClumpOfLinesAt that takes the clump to begin at the line clicked
selectClumpOfLinesAtForward(ld, textCursorPosition) ==
    LET i == findLineDataIndexAt(ld, textCursorPosition, 0)
    IN  IF ld = <<>> THEN NoRows("IndexError")
        ELSE IF ld[i + 1].hunkPos.hunkLineNum < 0
        THEN SelectRows(ld, i, extendEnd(ld, i, ld[i + 1].hunkPos.hunkID, TRUE))
        ELSE IF ld[i + 1].clumpID < 0 THEN NoRows("beep")
        ELSE SelectRows(ld, i, extendEnd(ld, i, ld[i + 1].clumpID, FALSE))

\* DiffView.selectClumpOfLinesAt(textCursorPosition=...): on a header row the
\* whole hunk, on a context line a beep, on a changed line its clump.  With
\* nothing on display the index is -1 and ldList[-1] raises IndexError.
selectClumpOfLinesAt(ld, textCursorPosition) ==
    LET i == findLineDataIndexAt(ld, textCursorPosition, 0)
    IN  IF ld = <<>> THEN NoRows("IndexError")
        ELSE IF ld[i + 1].hunkPos.hunkLineNum < 0
        THEN SelectRows(ld, i, extendEnd(ld, i, ld[i + 1].hunkPos.hunkID, TRUE))
        ELSE IF ld[i + 1].clumpID < 0 THEN NoRows("beep")
        ELSE SelectRows(ld, extendStart(ld, i, ld[i + 1].clumpID),
                        extendEnd(ld, i, ld[i + 1].clumpID, FALSE))

\* a double click on the row at a position (mouseDoubleClickEvent)
SelectClumpOfLinesAt ==
    /\ \E pos \in Positions :
        LET sel == selectClumpOfLinesAt(lineData, pos)
        IN  /\ probe' = [op |-> "selectClumpOfLinesAt", at |-> pos,
                         result |-> [sel |-> sel, cursorBefore |-> cursor]]
            /\ cursor' = IF sel.did = "select"
                         THEN [selectionStart |-> sel.startPosition,
                               selectionEnd |-> sel.endPosition]
                         ELSE cursor
    /\ UNCHANGED <<runnerVars, wqVars, refreshVars, twinVars, stash, conflict, closed,
                   currentPatch, lineData, files, done>>

NextLineIndex ==
    \/ ClearDocument
    \/ FindLineDataIndexAt
    \/ FindHunkIDAt
    \/ SelectClumpOfLinesAt

SpecLineIndex == InitDocument /\ [][NextLineIndex]_vars

\* ------------------------------------------------------------------------
\* Partial patches: the selection, the extraction of a sub-patch and what
\* the handlers do with it (diffview/diffview.py, widgets/diffview.py)
\* ------------------------------------------------------------------------

\* PatchPurpose: a flag value is the set of its flags
Verbs == {{"STAGE"}, {"UNSTAGE"}, {"DISCARD"}}

\* DiffView.getSelectedLineExtents: first and last selected row
getSelectedLineExtents(ld, cur) ==
    LET posStart == cur.selectionStart
        posEnd == IF cur.selectionEnd - posStart > 0
                  THEN cur.selectionEnd - 1 ELSE cur.selectionEnd
        biStart == findLineDataIndexAt(ld, posStart, 0)
        biEnd == findLineDataIndexAt(ld, posEnd, biStart)
    IN  <<biStart, biEnd>>

\* origin of a line in a reversed patch
reverseOrigin(origin) ==
    IF origin = "+" THEN "-" ELSE IF origin = "-" THEN "+" ELSE origin

\* the lines written for a hunk: the lines first..last (counted from 0) with
\* their origin, swapped if asked; of the others the context lines, and
\* the added lines as context under plusLinesAreContext; the rest is left out
RECURSIVE hunkBody(_, _, _, _, _, _)
hunkBody(lines, k, first, last, plusLinesAreContext, swap) ==
    IF k > Len(lines) THEN <<>>
    ELSE LET line == lines[k]
             selected == k - 1 >= first /\ k - 1 <= last
             out == IF selected
                    THEN <<[line EXCEPT !.origin = IF swap THEN reverseOrigin(@) ELSE @]>>
                    ELSE IF line.origin = " " \/ (line.origin = "+" /\ plusLinesAreContext)
                    THEN <<[line EXCEPT !.origin = " "]>>
                    ELSE <<>>
         IN  out \o hunkBody(lines, k + 1, first, last, plusLinesAreContext, swap)

\* a hunk of the sub-patch that keeps the line counts of the source hunk
subHunkSourceCounts(hunk, first, last, plusLinesAreContext, swap) ==
    [old_start |-> IF swap THEN hunk.new_start ELSE hunk.old_start,
     old_lines |-> IF swap THEN hunk.new_lines ELSE hunk.old_lines,
     new_start |-> IF swap THEN hunk.old_start ELSE hunk.new_start,
     new_lines |-> IF swap THEN hunk.old_lines ELSE hunk.new_lines,
     lines |-> hunkBody(hunk.lines, 1, first, last, plusLinesAreContext, swap)]

\* one hunk of the sub-patch: the header of the source hunk, its sides
\* swapped if asked, with the line counts of what is written
subHunk(hunk, first, last, plusLinesAreContext, swap) ==
    LET body == hunkBody(hunk.lines, 1, first, last, plusLinesAreContext, swap)
    IN  [old_start |-> IF swap THEN hunk.new_start ELSE hunk.old_start,
         old_lines |-> CountOf(body, {" ", "-"}),
         new_start |-> IF swap THEN hunk.old_start ELSE hunk.new_start,
         new_lines |-> CountOf(body, {" ", "+"}),
         lines |-> body]

\* the sub-patch of the rows from startPos to endPos: one hunk for each hunk
\* of the range that has a selected added or removed line; none has: empty
RECURSIVE subHunks(_, _, _, _, _, _)
subHunks(patch, h, startPos, endPos, plusLinesAreContext, swap) ==
    IF h > endPos.hunkID + 1 \/ h > Len(patch) THEN <<>>
    ELSE LET lines == patch[h].lines
             first == IF h - 1 = startPos.hunkID /\ startPos.hunkLineNum > 0
                      THEN startPos.hunkLineNum ELSE 0
             last == IF h - 1 = endPos.hunkID THEN endPos.hunkLineNum ELSE Len(lines) - 1
             changes == {k \in DOMAIN lines :
                            k - 1 >= first /\ k - 1 <= last /\ lines[k].origin # " "}
         IN  (IF changes = {} THEN <<>>
              ELSE <<subHunk(patch[h], first, last, plusLinesAreContext, swap)>>)
                \o subHunks(patch, h + 1, startPos, endPos, plusLinesAreContext, swap)

\* patch data: b"" or the hunks after the preamble
PatchData(hunks) == [empty |-> hunks = <<>>, hunks |-> hunks]

\* subpatch.extractSubpatch(masterPatch, startPos, endPos, reverse)
extractSubpatch(patch, startPos, endPos, reverse) ==
    PatchData(subHunks(patch, startPos.hunkID + 1, startPos, endPos, reverse, reverse))

\* patch.makePatchFromLines(a_path, b_path, lineData, biStart, biEnd,
\* plusLinesAreContext): a patch in the direction of the diff
makePatchFromLines(patch, ld, biStart, biEnd, plusLinesAreContext) ==
    LET startPos == At(ld, biStart, ld[1]).hunkPos
        endPos == At(ld, biEnd, ld[1]).hunkPos
    IN  PatchData(subHunks(patch, startPos.hunkID + 1, startPos, endPos,
                           plusLinesAreContext, FALSE))

\* DiffView.extractSelection
extractSelection(patch, ld, cur, reverse) ==
    LET ext == getSelectedLineExtents(ld, cur)
    IN  extractSubpatch(patch, At(ld, ext[1], ld[1]).hunkPos,
                        At(ld, ext[2], ld[1]).hunkPos, reverse)

\* the rows of a hunk taken to begin after its header row
hunkRowRangeSkipsHeader(ld, hunkID) ==
    LET hunkFirstLineIndex == bisect_left(lineHunkIDCache(ld), hunkID, 0) + 1
        hunkLastLineIndex == bisect_left(lineHunkIDCache(ld), hunkID + 1, hunkFirstLineIndex) - 1
    IN  <<hunkFirstLineIndex, hunkLastLineIndex>>

\* DiffView.extractHunk: "Find indices of first and last LineData objects
\* given the current hunk"
hunkRowRange(ld, hunkID) ==
    LET hunkFirstLineIndex == bisect_left(lineHunkIDCache(ld), hunkID, 0)
        hunkLastLineIndex == bisect_left(lineHunkIDCache(ld), hunkID + 1, hunkFirstLineIndex) - 1
    IN  <<hunkFirstLineIndex, hunkLastLineIndex>>

\* extractHunk whose last row is the row after the hunk
extractHunkToNextRow(patch, ld, hunkID, reverse) ==
    LET hunkFirstLineIndex == bisect_left(lineHunkIDCache(ld), hunkID, 0)
        hunkLastLineIndex == bisect_left(lineHunkIDCache(ld), hunkID + 1, hunkFirstLineIndex)
    IN  extractSubpatch(patch, At(ld, hunkFirstLineIndex, ld[1]).hunkPos,
                        At(ld, hunkLastLineIndex, ld[1]).hunkPos, reverse)

\* DiffView.extractHunk
extractHunk(patch, ld, hunkID, reverse) ==
    LET hunkFirstLineIndex == hunkRowRange(ld, hunkID)[1]
        hunkLastLineIndex == hunkRowRange(ld, hunkID)[2]
    IN  extractSubpatch(patch, At(ld, hunkFirstLineIndex, ld[1]).hunkPos,
                        At(ld, hunkLastLineIndex, ld[1]).hunkPos, reverse)

\* fireApplyLines that reverses for every purpose
fireReverseAlways(purpose) == purpose # {}

\* DiffView.fireApplyLines, fireApplyHunk: reverse = not (purpose & STAGE)
fireReverse(purpose) == ~(purpose \cap {"STAGE"} # {})

\* _applyLines that reverses for no operation
applyLinesFlagsForward(operation) ==
    [reverse |-> FALSE, cached |-> operation # {"DISCARD"}]

\* _applyLines that applies every operation to the index
applyLinesFlagsCached(operation) ==
    [reverse |-> operation # {"STAGE"}, cached |-> TRUE]

\* DiffView._applyLines: reverse and cached of the operation
applyLinesFlags(operation) ==
    IF operation = {"DISCARD"} THEN [reverse |-> TRUE, cached |-> FALSE]
    ELSE IF operation = {"STAGE"} THEN [reverse |-> FALSE, cached |-> TRUE]
    ELSE [reverse |-> TRUE, cached |-> TRUE]

\* git apply of the hunks from hunk i on: each hunk goes where the lines of
\* its old side stand in the file (a hunk without old side, at its start
\* line); a hunk whose old side is not in the file fails the whole patch
RECURSIVE applyHunks(_, _, _, _)
applyHunks(file, hunks, i, offset) ==
    IF i > Len(hunks) THEN [ok |-> TRUE, file |-> file]
    ELSE LET old == Side(hunks[i].lines, {" ", "-"})
             new == Side(hunks[i].lines, {" ", "+"})
             at == IF old = <<>>
                   THEN {p \in 1..(Len(file) + 1) : p = hunks[i].old_start + offset}
                   ELSE {p \in 1..(Len(file) - Len(old) + 1) :
                            SubSeq(file, p, p + Len(old) - 1) = old}
         IN  IF at = {} THEN [ok |-> FALSE, file |-> file]
             ELSE LET p == CHOOSE q \in at : \A r \in at : q <= r
                  IN  applyHunks(SubSeq(file, 1, p - 1) \o new
                                    \o SubSeq(file, p + Len(old), Len(file)),
                                 hunks, i + 1, offset + Len(new) - Len(old))

\* the hunks as git apply --reverse reads them
reversedHunks(hunks) ==
    [i \in DOMAIN hunks |->
        [old_start |-> hunks[i].new_start, old_lines |-> hunks[i].new_lines,
         new_start |-> hunks[i].old_start, new_lines |-> hunks[i].old_lines,
         lines |-> [k \in DOMAIN hunks[i].lines |->
                      [hunks[i].lines[k] EXCEPT !.origin = reverseOrigin(@)]]]]

\* patch.applyPatch(repo, patchData, cached, reverse): the file afterwards,
\* unchanged if git refuses the patch
applyPatch(file, patchData, reverse) ==
    LET r == applyHunks(file, IF reverse THEN reversedHunks(patchData.hunks)
                              ELSE patchData.hunks, 1, 0)
    IN  IF r.ok THEN r ELSE [ok |-> FALSE, file |-> file]

\* the runner idle, some patch on display and some text of it selected:
\* textCursor() from selectionStart to selectionEnd
InitSelection ==
    /\ InitRunner
    /\ ~forceSerial
    /\ ~isStageViewShown
    /\ \E patch \in Patches, a \in Positions, b \in Positions :
        /\ a <= b
        /\ b < RowChars * Len(LineDataOf(patch))
        /\ Shown(patch, a, b)
    /\ stash = Repo({})

\* _applyLines that applies the patch before it puts it in the trash
applyLinesCallsApplyFirst(operation, patchData) ==
    <<[call |-> "applyPatch", data |-> patchData]>> \o
        (IF operation = {"DISCARD"}
         THEN <<[call |-> "trashRawPatch", data |-> patchData]>> ELSE <<>>)

\* _applyLines once the patch is known not to be empty: what it calls with
\* the patch, in order
applyLinesCalls(operation, patchData) ==
    (IF operation = {"DISCARD"}
     THEN <<[call |-> "trashRawPatch", data |-> patchData]>> ELSE <<>>)
        \o <<[call |-> "applyPatch", data |-> patchData]>>

\* _applyLines that goes on with an empty patch
ApplyLinesWhateverThePatch(operation) ==
    /\ Len(done) < MaxApplies
    /\ LET ext == getSelectedLineExtents(lineData, cursor)
           flags == applyLinesFlags(operation)
           patchData == makePatchFromLines(currentPatch, lineData, ext[1], ext[2],
                                           flags.reverse)
           target == IF flags.cached THEN "index" ELSE "workdir"
           r == applyPatch(files[target], patchData, flags.reverse)
       IN  /\ done' = Append(done, [operation |-> operation, extents |-> ext,
                                    flags |-> flags, patchData |-> patchData,
                                    applied |-> IF r.ok THEN target ELSE "GitCommandError",
                                    calls |-> applyLinesCalls(operation, patchData),
                                    patchApplied |-> TRUE])
           /\ files' = [files EXCEPT ![target] = r.file,
                                     !.trash = IF operation = {"DISCARD"}
                                               THEN @ + 1 ELSE @]
    /\ probe' = NoProbe
    /\ UNCHANGED <<runnerVars, wqVars, refreshVars, twinVars, stash, conflict, closed,
                   currentPatch, lineData, cursor>>

\* DiffView._applyLines (stageLines, unstageLines, discardLines)
ApplyLines(operation) ==
    /\ Len(done) < MaxApplies
    /\ LET ext == getSelectedLineExtents(lineData, cursor)
           flags == applyLinesFlags(operation)
           patchData == makePatchFromLines(currentPatch, lineData, ext[1], ext[2],
                                           flags.reverse)
           target == IF flags.cached THEN "index" ELSE "workdir"
           r == applyPatch(files[target], patchData, flags.reverse)
       IN  IF patchData.empty
           THEN /\ done' = Append(done, [operation |-> operation, extents |-> ext,
                                         flags |-> flags, patchData |-> patchData,
                                         applied |-> "none", calls |-> <<>>,
                                         patchApplied |-> FALSE])
                /\ files' = files
           ELSE /\ done' = Append(done, [operation |-> operation, extents |-> ext,
                                         flags |-> flags, patchData |-> patchData,
                                         applied |-> IF r.ok THEN target ELSE "GitCommandError",
                                         calls |-> applyLinesCalls(operation, patchData),
                                         patchApplied |-> TRUE])
                /\ files' = [files EXCEPT ![target] = r.file,
                                          !.trash = IF operation = {"DISCARD"}
                                                    THEN @ + 1 ELSE @]
    /\ probe' = NoProbe
    /\ UNCHANGED <<runnerVars, wqVars, refreshVars, twinVars, stash, conflict, closed,
                   currentPatch, lineData, cursor>>

\* DiffView.fireApplyLines (stageSelection, unstageSelection,
\* discardSelection): the applyPatch signal and what it carries
FireApplyLines(verb) ==
    /\ done = <<>>
    /\ LET purpose == verb \cup {"LINES"}
           reverse == fireReverse(purpose)
       IN  probe' = [op |-> "applyPatch", at |-> purpose,
                     result |-> [reverse |-> reverse,
                                 patchData |-> extractSelection(currentPatch, lineData,
                                                                cursor, reverse)]]
    /\ UNCHANGED <<runnerVars, wqVars, refreshVars, twinVars, stash, conflict, closed,
                   currentPatch, lineData, cursor, files, done>>

\* DiffView.fireApplyHunk (stageHunk, unstageHunk, discardHunk)
FireApplyHunk(verb) ==
    /\ done = <<>>
    /\ \E hunkID \in 0..(Len(currentPatch) - 1) :
        LET purpose == verb \cup {"HUNK"}
            reverse == fireReverse(purpose)
        IN  probe' = [op |-> "applyPatch", at |-> purpose,
                      result |-> [reverse |-> reverse, hunkID |-> hunkID,
                                  range |-> hunkRowRange(lineData, hunkID),
                                  patchData |-> extractHunk(currentPatch, lineData,
                                                            hunkID, reverse)]]
    /\ UNCHANGED <<runnerVars, wqVars, refreshVars, twinVars, stash, conflict, closed,
                   currentPatch, lineData, cursor, files, done>>

\* DiffView.exportSelection -> exportPatch(patchData, saveInto): the file
\* written, or the beep
ExportSelection ==
    /\ done = <<>>
    /\ LET patchData == extractSelection(currentPatch, lineData, cursor, FALSE)
       IN  probe' = [op |-> "exportPatch", at |-> patchData,
                     result |-> IF patchData.empty THEN "beep" ELSE "dump"]
    /\ UNCHANGED <<runnerVars, wqVars, refreshVars, twinVars, stash, conflict, closed,
                   currentPatch, lineData, cursor, files, done>>

NextSubpatch ==
    \/ \E operation \in Verbs : ApplyLines(operation)
    \/ \E verb \in Verbs : FireApplyLines(verb)
    \/ \E verb \in Verbs : FireApplyHunk(verb)
    \/ ExportSelection

SpecSubpatch == InitSelection /\ [][NextSubpatch]_vars

\* the two handlers that destroy data of the working tree: the lines of the
\* selection are discarded, a conflicted file is replaced by one of its sides
NextBackup ==
    \/ ApplyLines({"DISCARD"})
    \/ HardSolveConflictAsync
    \/ WorkQueueStart
    \/ \E j \in Jobs : WorkQueueEnd(j)
    \/ WorkQueueThen

SpecBackup == InitSelection /\ [][NextBackup]_vars

\* ------------------------------------------------------------------------
\* The stash tasks of the sidebar (tasks/stashtasks.py, sidebar/sidebar.py).
\* Their flow shows a dialog, and after _flowBeginWorkerThread the rest of
\* the flow runs on the worker thread, one call after the other.
\* ------------------------------------------------------------------------
StashIds == 1..MaxStashes

\* ApplyStash.flow after _flowBeginWorkerThread
ApplyStashSteps(deleteAfterApply) ==
    <<"applyStash">> \o
        (IF deleteAfterApply THEN <<"backupStash", "dropStash">> ELSE <<>>)

\* DropStash.flow with its two calls the other way round
DropStashStepsDropFirst == <<"dropStash", "backupStash">>

\* DropStash.flow after _flowBeginWorkerThread
DropStashSteps == <<"backupStash", "dropStash">>

\* the default of ApplyStash.flow(stashCommitId, tickDelete=True)
tickDelete == TRUE

\* the flow starts: it looks the stash commit up and shows its dialog
StashFlowBegins(taskClass, oid, ticked) ==
    stash' = [stash EXCEPT !.task = [kind |-> taskClass, oid |-> oid, at |-> "dialog",
                                     ticked |-> ticked, step |-> 1],
                           !.of = [kind |-> taskClass, oid |-> oid],
                           !.log = <<"dialog">>,
                           !.before = stash.stashes,
                           !.trashBefore = stash.trash]

\* Sidebar: the "Apply" entry of a stash's menu, or a double click on it,
\* ApplyStash.invoke(self, oid)
InvokeApplyStash ==
    /\ stash.task.at = "idle"
    /\ \E oid \in stash.stashes : StashFlowBegins("ApplyStash", oid, tickDelete)
    /\ UNCHANGED <<runnerVars, wqVars, refreshVars, twinVars, closed, diffVars, conflict>>

\* Sidebar: the "Delete" entry, or wantDeleteNode: DropStash.invoke(self, oid)
InvokeDropStash ==
    /\ stash.task.at = "idle"
    /\ \E oid \in stash.stashes : StashFlowBegins("DropStash", oid, FALSE)
    /\ UNCHANGED <<runnerVars, wqVars, refreshVars, twinVars, closed, diffVars, conflict>>

\* the user clicks "Delete the stash if it applies cleanly"
ClickDeleteCheckBox ==
    /\ stash.task.at = "dialog"
    /\ stash.task.kind = "ApplyStash"
    /\ stash' = [stash EXCEPT !.task.ticked = ~@]
    /\ UNCHANGED <<runnerVars, wqVars, refreshVars, twinVars, closed, diffVars, conflict>>

\* _flowDialog, _flowConfirm: the dialog is accepted and the flow goes on to
\* _flowBeginWorkerThread ("deleteAfterApply = deleteCheckBox.isChecked()")
AcceptStashDialog ==
    /\ stash.task.at = "dialog"
    /\ stash' = [stash EXCEPT !.task.at = "worker", !.log = Append(@, "accepted")]
    /\ UNCHANGED <<runnerVars, wqVars, refreshVars, twinVars, closed, diffVars, conflict>>

\* _flowDialog, _flowConfirm: the dialog is rejected and the flow abandoned
RejectStashDialog ==
    /\ stash.task.at = "dialog"
    /\ stash' = [stash EXCEPT !.task = IdleStashTask, !.log = Append(@, "rejected")]
    /\ UNCHANGED <<runnerVars, wqVars, refreshVars, twinVars, closed, diffVars, conflict>>

\* the steps the worker thread goes through for the task under way
StashSteps(task) ==
    IF task.kind = "DropStash" THEN DropStashSteps ELSE ApplyStashSteps(task.ticked)

\* what one call on the worker thread does to the repository when it returns:
\* porcelain.applyStash, backupStash (a text file with the stash's hash in
\* the trash), porcelain.dropStash
StashCall(r, name, oid) ==
    CASE name = "applyStash" -> [r EXCEPT !.workdir = @ \cup {oid}]
      [] name = "backupStash" -> [r EXCEPT !.trash = @ \cup {oid}]
      [] OTHER -> [r EXCEPT !.stashes = @ \ {oid}]

\* the worker thread makes the next call of the flow; the call returns, or
\* it raises (a conflict, a file that cannot be written) and the flow ends
StashWorkerStep ==
    /\ stash.task.at = "worker"
    /\ \E raises \in BOOLEAN :
        LET task == stash.task
            name == StashSteps(task)[task.step]
            last == task.step = Len(StashSteps(task))
        IN  stash' =
              IF raises
              THEN [stash EXCEPT !.task = IdleStashTask,
                                 !.log = Append(@, "raise")]
              ELSE [StashCall(stash, name, task.oid) EXCEPT
                        !.task = IF last THEN IdleStashTask
                                 ELSE [task EXCEPT !.step = @ + 1],
                        !.log = Append(@, name)]
    /\ UNCHANGED <<runnerVars, wqVars, refreshVars, twinVars, closed, diffVars, conflict>>

\* a stash made meanwhile (NewStash, or git stash in a terminal), and the
\* working tree cleaned of the changes that were applied to it
NewStash ==
    /\ stash.task.at = "idle"
    /\ \E oid \in StashIds \ stash.stashes :
        stash' = [stash EXCEPT !.stashes = @ \cup {oid}, !.workdir = @ \ {oid},
                               !.trash = @ \ {oid},
                               !.of = [kind |-> "none", oid |-> 0], !.log = <<>>,
                               !.before = stash.stashes \cup {oid},
                               !.trashBefore = stash.trash \ {oid}]
    /\ UNCHANGED <<runnerVars, wqVars, refreshVars, twinVars, closed, diffVars, conflict>>

NextStash ==
    \/ InvokeApplyStash
    \/ InvokeDropStash
    \/ ClickDeleteCheckBox
    \/ AcceptStashDialog
    \/ RejectStashDialog
    \/ StashWorkerStep
    \/ NewStash

\* reposcenario.stashedChange and the like: a repository with some stashes
InitStash ==
    /\ InitRunner
    /\ ~forceSerial
    /\ ~isStageViewShown
    /\ NoDocument
    /\ \E S \in SUBSET StashIds : stash = Repo(S)

SpecStash == InitStash /\ [][NextStash]_vars

\* ------------------------------------------------------------------------
\* Requests that arrive while execute() runs on the pool thread: cancel()
\* (Cancel) and the closing of the tab.  The pool thread gets its turn, and
\* the event loop delivers the queued finished signal.
\* ------------------------------------------------------------------------

\* no execute() is queued, running or awaiting its finished slot
Quiescent == poolQueue = <<>> /\ poolActive = {} /\ uiQueue = <<>>

\* RepoWidget.closeEvent -> cleanup (widgets/repowidget.py): the views are
\* cleared and the repository freed; neither the runner nor its task is told
CloseRepo ==
    /\ poolActive # {}
    /\ ~closed
    /\ closed' = TRUE
    /\ UNCHANGED <<runnerVars, wqVars, refreshVars, twinVars, stash, conflict, diffVars>>

\* the tab is opened again once nothing of the runner is under way
ReopenRepo ==
    /\ closed
    /\ Quiescent
    /\ closed' = FALSE
    /\ UNCHANGED <<runnerVars, wqVars, refreshVars, twinVars, stash, conflict, diffVars>>

NextClose ==
    \/ Next
    \/ CloseRepo
    \/ ReopenRepo

SpecClose ==
    /\ Init
    /\ [][NextClose]_vars
    /\ WF_vars(PoolStart)
    /\ \A t \in TaskIds : WF_vars(ExecuteEnd(t))
    /\ WF_vars(OnFinished)

\* ------------------------------------------------------------------------
\* Two runners side by side: this one with forceSerial = False, and twin
\* with forceSerial = True.  Both get the same events from the UI thread,
\* and the tasks do the same in both (script).  Under forceSerial the UI
\* thread is inside execute() while it runs, so events reach the pair only
\* when no execute() is queued, running or awaiting its finished slot.
\* ------------------------------------------------------------------------
AllOutcomes == [ok : BOOLEAN, ok2 : BOOLEAN, what : Masks]

Scripted(inp) == [ok |-> inp.ok, ok2 |-> inp.ok2, what |-> inp.what]

SetTwin(r, inp) ==
    /\ ~r.full
    /\ twin' = r
    /\ script' = Scripted(inp)

ModesPut ==
    /\ Quiescent
    /\ \E f \in {"None", "generator"}, o \in AllOutcomes :
       \E s \in IF f = "None" THEN {"StopIteration"} ELSE StepsAfter(0) :
       \E c \in IF f = "None" THEN {FALSE} ELSE Cancels(s) :
          LET inp == TaskInput(f, s, c, o)
          IN  /\ Set(put(Forget(Cur), inp, None))
              /\ SetTwin(put(Forget(twin), inp, None), inp)
    /\ UNCHANGED <<forceSerial, poolActive, closed, stash, conflict, diffVars, wqVars, refreshVars>>

ModesContinueTask(t) ==
    /\ Quiescent
    /\ token[t] # "none"
    /\ \E s \in StepsAfter(steps[t]), o \in AllOutcomes : \E c \in Cancels(s) :
          LET inp == TaskInput("generator", s, c \/ aborted[t], o)
          IN  /\ Set(onContinueFlow(Fired(Cur, t, FALSE), t, inp))
              /\ SetTwin(onContinueFlow(Fired(twin, t, FALSE), t, inp), inp)
    /\ UNCHANGED <<forceSerial, poolActive, closed, stash, conflict, diffVars, wqVars, refreshVars>>

ModesAbortTask(t) ==
    /\ Quiescent
    /\ token[t] = "AbortIfDialogRejected"
    /\ Set(onAbortTask(Fired(Cur, t, FALSE), t))
    /\ twin' = onAbortTask(Fired(twin, t, FALSE), t)
    /\ UNCHANGED <<forceSerial, poolActive, script, closed, stash, conflict, diffVars, wqVars, refreshVars>>

ModesCancel(t) ==
    /\ Quiescent
    /\ t = currentTask
    /\ ~aborted[t]
    /\ aborted' = [aborted EXCEPT ![t] = TRUE]
    /\ twin' = [twin EXCEPT !.aborted[t] = TRUE]
    /\ UNCHANGED <<forceSerial, currentTask, pc, token, fired, what, kind,
                   trigger, steps, gen, log, emitted, poolQueue, poolActive, uiQueue,
                   asserts, isStageViewShown, script, closed, stash, conflict, diffVars, wqVars, refreshVars>>

ModesQuickRefresh ==
    /\ Quiescent
    /\ \E o \in AllOutcomes :
          LET inp == TaskInput("None", "StopIteration", FALSE, o)
          IN  /\ Set(quickRefresh(Forget(Cur), inp, None))
              /\ SetTwin(quickRefresh(Forget(twin), inp, None), RefreshWorkdirInput(inp))
    /\ UNCHANGED <<forceSerial, poolActive, closed, stash, conflict, diffVars, wqVars, refreshVars>>

\* execute() on the pool thread ends as the script has it
ModesExecuteEnd(t) ==
    /\ ExecuteEnd(t)
    /\ uiQueue' = Append(uiQueue, [task |-> t, exc |-> ~script.ok])

\* refreshWhat() returns to _onTaskFinished what the script has
ModesOnFinished ==
    /\ OnFinished
    /\ what'[Head(uiQueue).task] = script.what

NextModes ==
    \/ ModesPut
    \/ \E t \in TaskIds : ModesContinueTask(t)
    \/ \E t \in TaskIds : ModesAbortTask(t)
    \/ \E t \in TaskIds : ModesCancel(t)
    \/ ModesQuickRefresh
    \/ PoolStart
    \/ \E t \in TaskIds : ModesExecuteEnd(t)
    \/ ModesOnFinished

InitModes ==
    /\ Init
    /\ forceSerial = FALSE

SpecModes == InitModes /\ [][NextModes]_vars

\* ------------------------------------------------------------------------
\* Properties
\* ------------------------------------------------------------------------
Has(t, e) == e \in Range(log[t])

Last(L) == L[Len(L)]

\* what a log holds after the first occurrence of e
After(L, e) ==
    LET i == CHOOSE k \in 1..Len(L) : L[k] = e /\ \A j \in 1..(k - 1) : L[j] # e
    IN  SubSeq(L, i + 1, Len(L))

\* the tasks whose execute() has begun and not ended
Executing == {t \in TaskIds : Has(t, "execute") /\ ~Has(t, "executeEnd") /\ ~Has(t, "executeRaise")}

PostExecutes == {"postExecuteTrue", "postExecuteFalse"}

\* C1: whatever the puts, the dialogs' signals and their interleaving, at most
\* one task's execute() is in progress at any time
C1_OneExecuteAtATime == Cardinality(Executing) <= 1

\* a task executes while another, accepted after the slot was cleared under
\* the first, waits in the pool for its turn
C1_Witness ==
    \E t \in Executing : \E u \in Range(poolQueue) : u # t /\ currentTask = u

\* C2: put(t2) while t1 is the current task leaves currentTask at t1 and marks
\* t2 rejected; a rejected task has no flow step, no execute, no postExecute,
\* no published mask, no token, and is in no queue
C2_PutWhileBusyIsRejected ==
    /\ [](\A t \in TaskIds : pc[t] = "rejected" =>
            /\ currentTask # t
            /\ log[t] = <<>>
            /\ emitted[t] = <<>>
            /\ token[t] = "none"
            /\ gen[t] = "none"
            /\ t \notin Range(poolQueue) \cup poolActive
            /\ \A i \in 1..Len(uiQueue) : uiQueue[i].task # t)
    /\ [][(currentTask # None /\ Put) =>
            /\ currentTask' = currentTask
            /\ pc'[FreeId(Forget(Cur))] = "rejected"]_vars

\* a task stands rejected while the task it collided with is still current
C2_Witness ==
    \E t \in TaskIds : pc[t] = "rejected" /\ trigger[t] = None /\ currentTask \notin {None, t}

\* C3: no WorkQueue job (hardSolveConflict, markConflictSolved) runs while a
\* task's execute() is in progress
C3_NoJobDuringExecute == ~(Executing # {} /\ wqActive # {})

\* C4: once the dialog behind an AbortIfDialogRejected token is rejected, the
\* task has no execute, no postExecute and no refresh, and the slot is empty
C4_RejectedDialogEndsTask ==
    /\ [](\A t \in TaskIds : Has(t, "abortTask") =>
            /\ pc[t] = "cleared"
            /\ currentTask # t
            /\ Last(log[t]) = "clear"
            /\ Range(log[t]) \cap ({"execute", "refresh", "onError"} \cup PostExecutes) = {}
            /\ emitted[t] = <<>>
            /\ t \notin Range(poolQueue) \cup poolActive)
    /\ [][\A t \in TaskIds : (~Has(t, "abortTask") /\ "abortTask" \in Range(log'[t])) =>
            currentTask' = None]_vars

\* a task that ran a flow step was ended by its dialog being rejected
C4_Witness ==
    \E t \in TaskIds : log[t] = <<"flow", "abortTask", "clear">> /\ currentTask = None

\* C5: once the end of execute() is handled, the task has had onError exactly
\* when execute() raised, then postExecute(success), then one refreshPostTask,
\* then the slot was cleared; until it is handled nothing of this has happened
C5_FinishSequence ==
    /\ [](\A t \in TaskIds :
            /\ Has(t, "executeEnd") =>
                 /\ After(log[t], "executeEnd") \in {<<>>, <<"postExecuteTrue", "refresh", "clear">>}
                 /\ ~Has(t, "executeRaise")
            /\ Has(t, "executeRaise") =>
                 After(log[t], "executeRaise") \in
                     {<<>>, <<"onError", "postExecuteFalse", "refresh", "clear">>}
            /\ Has(t, "refresh") =>
                 /\ Len(emitted[t]) = 1
                 /\ pc[t] = "cleared"
                 /\ currentTask # t
            /\ (Has(t, "executeEnd") \/ Has(t, "executeRaise")) /\ ~Has(t, "refresh") =>
                 /\ currentTask = t
                 /\ \E i \in 1..Len(uiQueue) :
                       uiQueue[i] = [task |-> t, exc |-> Has(t, "executeRaise")])
    /\ [][\A t \in TaskIds : (~Has(t, "refresh") /\ "refresh" \in Range(log'[t])) =>
            /\ currentTask' = None
            /\ ~putRejects([currentTask |-> currentTask'])]_vars

\* a task whose execute() raised has been through the whole sequence
C5_Witness ==
    \E t \in TaskIds :
        /\ Has(t, "execute")
        /\ After(log[t] \o <<"end">>, "execute") =
              <<"executeRaise", "onError", "postExecuteFalse", "refresh", "clear", "end">>
        /\ currentTask = None

\* C6 (as the code has it): the mask published when the end of execute() is
\* handled is the task's refreshWhat(), after a failure as after a success
C6_PublishedMaskIsRefreshWhat ==
    \A t \in TaskIds : Has(t, "refresh") => emitted[t] = <<what[t]>>

\* a failed task has published the non-empty mask it declares
C6_Witness ==
    \E t \in TaskIds :
        Has(t, "executeRaise") /\ Has(t, "refresh") /\ what[t] # NOTHING /\ emitted[t] = <<what[t]>>

\* C6 as stated: after a failure the published mask is empty
C6_EmptyMaskOnFailure ==
    \A t \in TaskIds : Has(t, "executeRaise") /\ Has(t, "refresh") => emitted[t] = <<NOTHING>>

\* C7: a task's phases come in the order flow steps, execute, postExecute: no
\* flow step after execute() began, execute() at most once, postExecute only
\* after execute() ended and nothing of the flow or of execute() after it
C7_PhasesInOrder ==
    \A t \in TaskIds : \A i, j \in 1..Len(log[t]) :
        /\ (i < j /\ log[t][i] = "execute") => log[t][j] \notin {"flow", "execute"}
        /\ (i < j /\ log[t][i] \in PostExecutes) =>
              log[t][j] \notin {"flow", "execute", "executeEnd", "executeRaise"} \cup PostExecutes
        /\ log[t][j] \in PostExecutes =>
              \E k \in 1..(j - 1) : log[t][k] \in {"executeEnd", "executeRaise"}
        /\ log[t][j] \in {"executeEnd", "executeRaise"} => (j > 1 /\ log[t][j - 1] = "execute")
        /\ (log[t][j] = "execute" /\ gen[t] # "none") =>
              (gen[t] = "exhausted" /\ \A k \in 1..(j - 1) : log[t][k] = "flow")

\* a task with a dialog went through two flow steps, execute and postExecute
C7_Witness ==
    \E t \in TaskIds :
        Len(log[t]) >= 5 /\ SubSeq(log[t], 1, 5) = <<"flow", "flow", "execute", "executeEnd", "postExecuteTrue">>

\* C8: the RefreshWorkdir task that the refresh handler submits when a task
\* with a non-empty mask completes on the stage view is accepted and run
C8_RefreshAfterTaskIsAccepted ==
    \A t \in TaskIds :
        (kind[t] = "RefreshWorkdir" /\ trigger[t] # None) => pc[t] # "rejected"

\* C9 (as the code has it): a refreshRepo call with bits, on a loaded repo that
\* is not priming, while the widget is hidden or the runner busy, starts no
\* refresh and ORs the bits into pendingRefresh; a call on a repo that is not
\* loaded or is priming starts no refresh and leaves pendingRefresh alone
C9_StashOnLoadedRepo ==
    /\ (call.did # "none" /\ call.flags # Nothing /\ call.loaded /\ ~call.priming
           /\ (~call.visible \/ call.busy)) =>
          /\ call.did = "stash"
          /\ call.passed = Nothing
          /\ pendingRefresh = call.pending \cup call.flags
    /\ (call.did # "none" /\ (~call.loaded \/ call.priming)) =>
          /\ call.did = "return"
          /\ call.passed = Nothing
          /\ pendingRefresh = call.pending

\* bits were added to bits already pending, under a running task
C9_Witness ==
    /\ call.did = "stash"
    /\ call.busy
    /\ call.pending # Nothing
    /\ ~(call.flags \subseteq call.pending)
    /\ ~(call.pending \subseteq call.flags)

\* C9 as stated: a call with bits while hidden or while a task, priming
\* included, is running ORs the bits into pendingRefresh
C9_StashWheneverBusy ==
    (call.did # "none" /\ call.flags # Nothing /\ (~call.visible \/ call.busy)) =>
        /\ call.did = "stash"
        /\ pendingRefresh = call.pending \cup call.flags

\* C10: a refreshRepo call that proceeds invokes RefreshRepo with its flags and
\* the pending bits together, and has reset pendingRefresh when it returns
C10_ConsumePending ==
    call.did = "invoke" =>
        /\ call.passed = call.flags \cup call.pending
        /\ pendingRefresh = Nothing
        /\ call.loaded /\ ~call.priming /\ call.visible /\ ~call.busy /\ call.flags # Nothing

\* a call went ahead with pending bits that its own flags did not hold
C10_Witness ==
    call.did = "invoke" /\ call.pending # Nothing /\ ~(call.pending \subseteq call.flags)

\* what the calls made on the tasks, their outcomes and the slot come to
Observed(r) ==
    [currentTask |-> r.currentTask, pc |-> r.pc, token |-> r.token,
     aborted |-> r.aborted, what |-> r.what, kind |-> r.kind, trigger |-> r.trigger,
     steps |-> r.steps, gen |-> r.gen, log |-> r.log, emitted |-> r.emitted,
     asserts |-> r.asserts, isStageViewShown |-> r.isStageViewShown]

\* C11: fed the same events and the same tasks, the runner on the thread pool,
\* once its execute() and finished slot are through, has made the same calls
\* in the same order with the same outcomes as the runner under forceSerial
C11_SameStateMachine == Quiescent => Observed(Cur) = Observed(twin)

\* in both runners a task with a flow step failed in execute() and went
\* through onError, postExecute(False), the refresh emission and the clearing
C11_Witness ==
    /\ ~forceSerial
    /\ Quiescent
    /\ \E t \in TaskIds :
          /\ log[t] = <<"flow", "flow", "execute", "executeRaise", "onError",
                        "postExecuteFalse", "refresh", "clear">>
          /\ twin.log[t] = log[t]
          /\ emitted[t] # <<NOTHING>>
          /\ twin.emitted[t] = emitted[t]

C19_LineAt ==
    probe.op = "findLineDataIndexAt" =>
        LET n == Len(lineData)
            i == probe.result
        IN  /\ (i = -1) <=> (n = 0)
            /\ n > 0 =>
                /\ i \in 0..(n - 1)
                /\ lineData[i + 1].cursorStart <= probe.at
                /\ \A j \in 0..(n - 1) : lineData[j + 1].cursorStart <= probe.at => j <= i
                /\ probe.at > lineData[n].cursorStart => i = n - 1

\* an offset on the first character of a row that is not the first, and an
\* offset past every row, were looked up
C19_Witness ==
    /\ probe.op = "findLineDataIndexAt"
    /\ Len(lineData) > 2
    /\ \/ probe.at = lineData[2].cursorStart /\ probe.result = 1
       \/ probe.at > lineData[Len(lineData)].cursorStart + RowChars
            /\ probe.result = Len(lineData) - 1

\* C20: a lookup of the hunk at an offset answers with the hunk of the row
\* that the lookup of the line finds there, and with -1 when that lookup
\* finds no row
C20_HunkAt ==
    probe.op = "findHunkIDAt" =>
        LET i == findLineDataIndexAt(lineData, probe.at, 0)
        IN  probe.result = IF i = -1 THEN -1 ELSE lineData[i + 1].hunkPos.hunkID

\* the hunk of a row of the second hunk was found
C20_Witness ==
    /\ probe.op = "findHunkIDAt"
    /\ probe.result = 1
    /\ probe.at < RowChars * Len(lineData)

\* the selection of the cursor: the hunk of its first row, whether its last
\* row is in the same hunk, and the lines of that hunk that it holds
Selected ==
    LET ext == getSelectedLineExtents(lineData, cursor)
        startPos == lineData[ext[1] + 1].hunkPos
        endPos == lineData[ext[2] + 1].hunkPos
        hunk == currentPatch[startPos.hunkID + 1]
    IN  [hunk |-> hunk,
         oneHunk |-> startPos.hunkID = endPos.hunkID,
         lines |-> {k \in DOMAIN hunk.lines :
                      /\ k - 1 >= startPos.hunkLineNum
                      /\ startPos.hunkID = endPos.hunkID => k - 1 <= endPos.hunkLineNum}]

Extracted ==
    {[purpose |-> done[i].operation, patchData |-> done[i].patchData] : i \in DOMAIN done}
      \cup (IF probe.op = "applyPatch"
            THEN {[purpose |-> probe.at, patchData |-> probe.result.patchData]}
            ELSE IF probe.op = "exportPatch"
            THEN {[purpose |-> {"EXPORT"}, patchData |-> probe.at]}
            ELSE {})

OutsideLines(whateverThePurpose) ==
    \A x \in {y \in Extracted : y.purpose \cap {"HUNK", "EXPORT"} = {}} :
        LET lines == Selected.hunk.lines
            out == IF x.patchData.empty THEN <<>> ELSE x.patchData.hunks[1].lines
            found(k) == {j \in DOMAIN out : out[j].content = lines[k].content}
        IN  (\E k \in Selected.lines : lines[k].origin # " ") =>
                \A k \in DOMAIN lines \ Selected.lines :
                    /\ lines[k].origin = "-" => found(k) = {}
                    /\ lines[k].origin = "+" =>
                          IF whateverThePurpose \/ "STAGE" \notin x.purpose
                          THEN \E j \in found(k) : out[j].origin = " "
                          ELSE found(k) = {}

C17_DirectionAndTarget ==
    /\ probe.op = "applyPatch" =>
          /\ probe.result.reverse = ("STAGE" \notin probe.at)
          /\ "LINES" \in probe.at =>
                probe.result.patchData =
                    extractSelection(currentPatch, lineData, cursor, "STAGE" \notin probe.at)
    /\ \A i \in DOMAIN done :
          /\ done[i].flags.reverse = (done[i].operation # {"STAGE"})
          /\ done[i].applied \in
                IF done[i].operation = {"DISCARD"}
                THEN {"none", "GitCommandError", "workdir"}
                ELSE {"none", "GitCommandError", "index"}
    /\ (\A i \in DOMAIN done : done[i].operation # {"DISCARD"}) =>
            files.workdir = FileOf(currentPatch, 1, "+")
    /\ (\A i \in DOMAIN done : done[i].operation = {"DISCARD"}) =>
            files.index = FileOf(currentPatch, 1, "-")

\* lines were discarded: the working tree changed, the index did not
C17_Witness ==
    /\ Len(done) = 1
    /\ done[1].operation = {"DISCARD"}
    /\ done[1].applied = "workdir"
    /\ files.workdir # FileOf(currentPatch, 1, "+")
    /\ files.index = FileOf(currentPatch, 1, "-")
    /\ files.trash = 1

RunAround(ld, i, byHunk) ==
    LET key(j) == IF byHunk THEN ld[j + 1].hunkPos.hunkID ELSE ld[j + 1].clumpID
    IN  {j \in 0..(Len(ld) - 1) :
            \A k \in 0..(Len(ld) - 1) :
                ((j <= k /\ k <= i) \/ (i <= k /\ k <= j)) => key(k) = key(i)}

Before(e, f) ==
    \E i, j \in 1..Len(stash.log) :
        i < j /\ stash.log[i] = e /\ stash.log[j] = f

AppliedStash ==
    /\ stash.of.kind = "ApplyStash"
    /\ stash.task.at = "idle"
    /\ "applyStash" \in Range(stash.log)
    /\ "raise" \notin Range(stash.log)

C23_ApplyKeepsStash ==
    AppliedStash =>
        /\ stash.of.oid \in stash.workdir
        /\ Cardinality(stash.stashes) = Cardinality(stash.before)

\* ------------------------------------------------------------------------
\* C24: when cancel() is called on the current task while its flow waits at
\* a yield token, the task never starts execute(), and once that token has
\* signalled the runner's slot is free again.
\* ------------------------------------------------------------------------
C24_CancelAtTokenFreesSlot ==
    \A t \in TaskIds :
        (aborted[t] /\ gen[t] = "suspended") =>
            /\ ~Has(t, "execute")
            /\ token[t] = "none" => currentTask # t

\* ------------------------------------------------------------------------
\* C25: a continueTask or abortTask signal of a token the flow no longer
\* waits on (an earlier token, a token that signals a second time, a token
\* of a cleared task) changes nothing: no flow moves on, no call is made on
\* any task, the current task stays, and no assertion of the runner fails.
\* ------------------------------------------------------------------------
C25_StaleSignalsAreIgnored ==
    [][(\E t \in TaskIds : StaleContinueTask(t) \/ StaleAbortTask(t)) =>
            /\ log' = log
            /\ gen' = gen
            /\ steps' = steps
            /\ currentTask' = currentTask
            /\ poolQueue' = poolQueue
            /\ asserts' = asserts]_vars

\* ------------------------------------------------------------------------
\* C26: when a step of the flow raises, or yields something that is not a
\* token, onError is called exactly once, execute() and postExecute() are
\* never called, refreshPostTask is not emitted, and the slot is cleared.
\* ------------------------------------------------------------------------
\* the flow of t raised: onError was called right after a step of the flow
FlowRaisedIn(t) ==
    \E i \in 1..(Len(log[t]) - 1) : log[t][i] = "flow" /\ log[t][i + 1] = "onError"

C26_FlowErrorEndsTask ==
    \A t \in TaskIds :
        FlowRaisedIn(t) =>
            /\ Cardinality({i \in 1..Len(log[t]) : log[t][i] = "onError"}) = 1
            /\ Range(log[t]) \cap {"execute", "postExecuteTrue", "postExecuteFalse",
                                    "refresh"} = {}
            /\ emitted[t] = <<>>
            /\ \E i \in 1..(Len(log[t]) - 2) :
                  /\ log[t][i] = "flow"
                  /\ log[t][i + 1] = "onError"
                  /\ log[t][i + 2] = "clear"
            /\ pc[t] = "cleared"
            /\ currentTask # t

\* a flow raised after the token it had yielded was accepted
C26_Witness ==
    \E t \in TaskIds :
        /\ FlowRaisedIn(t)
        /\ steps[t] = 1
        /\ currentTask = None

\* ------------------------------------------------------------------------
\* C27: a task whose execute() has ended and whose finished signal has been
\* handled no longer occupies the runner, whatever onError, postExecute or
\* a slot of refreshPostTask did, so that put() is accepted again.
\* ------------------------------------------------------------------------
\* execute() of t has ended and nothing of it is queued or running any more
WorkerPhaseHandled(t) ==
    /\ Has(t, "executeEnd") \/ Has(t, "executeRaise")
    /\ t \notin poolActive
    /\ t \notin Range(poolQueue)
    /\ \A i \in 1..Len(uiQueue) : uiQueue[i].task # t

C27_FinishedTaskLeavesSlot ==
    \A t \in TaskIds : WorkerPhaseHandled(t) => currentTask # t

\* ------------------------------------------------------------------------
\* C28: the repository is never freed while execute() of a task is running
\* on it.
\* ------------------------------------------------------------------------
C28_NoFreeWhileExecuting ==
    ~(closed /\ poolActive # {})

\* ------------------------------------------------------------------------
\* C30: for every hunk of the line index, whose hunk ids never decrease,
\* extractHunk hands the extractor the place of the first and of the last
\* row of that hunk, and the rows between the two are exactly its rows.
\* ------------------------------------------------------------------------
\* rows (counted from 0) of the hunk h
RowsOf(h) == {i \in 0..(Len(lineData) - 1) : lineData[i + 1].hunkPos.hunkID = h}

C30_HunkRange ==
    (probe.op = "applyPatch" /\ "HUNK" \in probe.at) =>
        LET h == probe.result.hunkID
            first == probe.result.range[1]
            last == probe.result.range[2]
        IN  /\ \A i, j \in 0..(Len(lineData) - 1) :
                  i <= j => lineData[i + 1].hunkPos.hunkID <= lineData[j + 1].hunkPos.hunkID
            /\ RowsOf(h) # {}
            /\ first \in RowsOf(h) /\ \A i \in RowsOf(h) : first <= i
            /\ last \in RowsOf(h) /\ \A i \in RowsOf(h) : i <= last
            /\ RowsOf(h) = first..last
            /\ probe.result.patchData =
                  extractSubpatch(currentPatch, lineData[first + 1].hunkPos,
                                  lineData[last + 1].hunkPos, probe.result.reverse)

\* the first of two hunks was extracted: rows of another hunk follow its last
C30_Witness ==
    /\ probe.op = "applyPatch"
    /\ "HUNK" \in probe.at
    /\ probe.result.hunkID = 0
    /\ probe.result.range[1] = 0
    /\ probe.result.range[2] + 1 < Len(lineData)
    /\ Len(currentPatch) = 2

\* ------------------------------------------------------------------------
\* C29: whenever a Discard of lines applies its patch, it has put that very
\* patch in the trash before; whenever the hard solving of a conflict writes
\* the file, it has backed the conflicted file up before.
\* ------------------------------------------------------------------------
C29_BackupBeforeDestroy ==
    /\ \A i \in 1..Len(done) :
          done[i].operation = {"DISCARD"} =>
            \A k \in 1..Len(done[i].calls) :
                done[i].calls[k].call = "applyPatch" =>
                    \E j \in 1..(k - 1) :
                        /\ done[i].calls[j].call = "trashRawPatch"
                        /\ done[i].calls[j].data = done[i].calls[k].data
    /\ \A k \in 1..Len(conflict.calls) :
          conflict.calls[k] = "write" =>
            \E j \in 1..(k - 1) : conflict.calls[j] = "backupFile"
    /\ conflict.file = "kept" => conflict.backup = "conflicted"

\* lines were discarded from the working tree, and a conflict was hard solved
C29_Witness ==
    /\ \E i \in 1..Len(done) :
          /\ done[i].operation = {"DISCARD"}
          /\ done[i].applied = "workdir"
          /\ files.trash > 0
    /\ conflict.file = "kept"
    /\ ~conflict.conflicted
====
